---- MODULE Spec2Model ----
(***************************************************************************)
(* Model of the Mumble protocol engine of Ultros                           *)
(* (system/protocols/mumble/protocol.py): byte framing, the message-type   *)
(* table, the dispatcher and the channel/user presence graph.              *)
(*                                                                         *)
(* Strings and byte buffers are sequences of byte values (0..255).         *)
(* A protobuf message is a record [kind, fields]; fields is the list of    *)
(* the fields that are set, each [num, wt, val] with the field number, the *)
(* wire type (0 varint, 2 length-delimited) and the value.                 *)
(***************************************************************************)
EXTENDS Integers, Sequences, FiniteSets, TLC

\* Python's None, for an optional identifier or object reference.
None == -1

\* ------------------------------------------------------------------ bounds

\* Number of frames the server puts on the wire in one run.
MaxFrames == 2

\* Number of written frames whose tags the history keeps (the first ones).
MaxWritten == 3

\* The event manager holds at most MaxHandlers handlers when one more is
\* added.
MaxHandlers == 3

\* The depth of nested load_plugin calls at which Python gives up with
\* "maximum recursion depth exceeded"; deeper than any chain of
\* dependencies without a loop.
MaxDepth == 3

\* --------------------------------------------------------------- sequences

Range(s) == {s[i] : i \in 1..Len(s)}

Take(s, n) == SubSeq(s, 1, n)

Drop(s, n) == SubSeq(s, n + 1, Len(s))

RECURSIVE Concat(_)
Concat(ss) == IF ss = <<>> THEN <<>> ELSE Head(ss) \o Concat(Tail(ss))

\* ---------------------------------------------------------------- registry

PREFIX_LENGTH == 6

ID_MESSAGE ==
    << "Version", "UDPTunnel", "Authenticate", "Ping", "Reject",
       "ServerSync", "ChannelRemove", "ChannelState", "UserRemove",
       "UserState", "BanList", "TextMessage", "PermissionDenied", "ACL",
       "QueryUsers", "CryptSetup", "ContextActionModify", "ContextAction",
       "UserList", "VoiceTarget", "PermissionQuery", "CodecVersion",
       "UserStats", "RequestBlob", "ServerConfig" >>

\* dict([(v, k) for k, v in enumerate(ID_MESSAGE)]): kind -> zero-based tag.
MESSAGE_ID ==
    [k \in Range(ID_MESSAGE) |->
        (CHOOSE i \in 1..Len(ID_MESSAGE) : ID_MESSAGE[i] = k) - 1]

\* msg_type in Protocol.MESSAGE_ID.values()
ValidTagWrong(t) == t <= Len(ID_MESSAGE)

ValidTag(t) == t \in {MESSAGE_ID[k] : k \in DOMAIN MESSAGE_ID}

\* ------------------------------------------------------------------ header

\* struct.pack(">HI", msg_type, length): u16 and u32, big-endian.
PackPrefixSwapped(t, n) ==
    << t % 256, (t \div 256) % 256,
       (n \div 16777216) % 256, (n \div 65536) % 256,
       (n \div 256) % 256, n % 256 >>

PackPrefix(t, n) ==
    << (t \div 256) % 256, t % 256,
       (n \div 16777216) % 256, (n \div 65536) % 256,
       (n \div 256) % 256, n % 256 >>

\* struct.unpack(">HI", received[:6]) -> (msg_type, length)
UnpackTypeLow(b) == b[2]

UnpackType(b) == b[1] * 256 + b[2]

UnpackLength(b) == b[3] * 16777216 + b[4] * 65536 + b[5] * 256 + b[6]

\* ------------------------------------------------------- protobuf payloads

RECURSIVE Varint(_)
Varint(n) == IF n < 128 THEN <<n>> ELSE <<128 + (n % 128)>> \o Varint(n \div 128)

\* Read a varint of b starting at index i: [ok, val, next].
RECURSIVE ReadVarint(_, _)
ReadVarint(b, i) ==
    IF i > Len(b) THEN [ok |-> FALSE, val |-> 0, next |-> i]
    ELSE IF b[i] < 128 THEN [ok |-> TRUE, val |-> b[i], next |-> i + 1]
    ELSE LET r == ReadVarint(b, i + 1)
         IN  [ok |-> r.ok, val |-> (b[i] - 128) + 128 * r.val, next |-> r.next]

Field(num, wt, val) == [num |-> num, wt |-> wt, val |-> val]

SerializeField(f) ==
    Varint(f.num * 8 + f.wt) \o
    (IF f.wt = 0 THEN Varint(f.val) ELSE Varint(Len(f.val)) \o f.val)

\* message.SerializeToString()
RECURSIVE SerializeToString(_)
SerializeToString(fields) ==
    IF fields = <<>> THEN <<>>
    ELSE SerializeField(Head(fields)) \o SerializeToString(Tail(fields))

\* msg.ParseFromString(bytes), from index i: [ok, fields]; ok is FALSE when
\* the payload is malformed (the library raises DecodeError).
RECURSIVE ParseFrom(_, _)
ParseFrom(b, i) ==
    IF i > Len(b) THEN [ok |-> TRUE, fields |-> <<>>]
    ELSE
      LET k   == ReadVarint(b, i)
          wt  == k.val % 8
          num == k.val \div 8
      IN  IF ~k.ok \/ num = 0 \/ wt \notin {0, 2}
          THEN [ok |-> FALSE, fields |-> <<>>]
          ELSE
            LET v == ReadVarint(b, k.next)
            IN  IF ~v.ok THEN [ok |-> FALSE, fields |-> <<>>]
                ELSE IF wt = 0
                THEN LET r == ParseFrom(b, v.next)
                     IN  [ok |-> r.ok,
                          fields |-> <<Field(num, 0, v.val)>> \o r.fields]
                ELSE IF v.next + v.val - 1 > Len(b)
                THEN [ok |-> FALSE, fields |-> <<>>]
                ELSE LET r == ParseFrom(b, v.next + v.val)
                     IN  [ok |-> r.ok,
                          fields |->
                            <<Field(num, 2,
                                    SubSeq(b, v.next, v.next + v.val - 1))>>
                            \o r.fields]

ParseFromString(b) == ParseFrom(b, 1)

\* message.HasField(name) for the field numbered num.
HasField(m, num) == \E i \in 1..Len(m.fields) : m.fields[i].num = num

\* The value of a singular field (the last occurrence wins), or its default.
GetField(m, num, default) ==
    IF HasField(m, num)
    THEN m.fields[CHOOSE i \in 1..Len(m.fields) :
                    /\ m.fields[i].num = num
                    /\ \A j \in (i + 1)..Len(m.fields) : m.fields[j].num # num].val
    ELSE default

\* The values of a repeated field, in order.
RECURSIVE RepeatedOf(_, _)
RepeatedOf(fields, num) ==
    IF fields = <<>> THEN <<>>
    ELSE (IF Head(fields).num = num THEN <<Head(fields).val>> ELSE <<>>)
         \o RepeatedOf(Tail(fields), num)

Repeated(m, num) == RepeatedOf(m.fields, num)

GetBool(m, num) == GetField(m, num, 0) # 0

Message(kind, fields) == [kind |-> kind, fields |-> fields]

\* Field numbers of the message schemas (Mumble.proto).
F_Version == [version |-> 1, release |-> 2, os |-> 3, os_version |-> 4]

F_Authenticate == [username |-> 1, password |-> 2, tokens |-> 3]

F_Reject == [type |-> 1, reason |-> 2]

F_ChannelState ==
    [channel_id |-> 1, parent |-> 2, name |-> 3, links |-> 4,
     links_add |-> 6, links_remove |-> 7, position |-> 9]

F_UserRemove == [session |-> 1, actor |-> 2, reason |-> 3, ban |-> 4]

F_UserState ==
    [session |-> 1, actor |-> 2, name |-> 3, channel_id |-> 5, mute |-> 6,
     deaf |-> 7, suppress |-> 8, self_mute |-> 9, self_deaf |-> 10,
     priority_speaker |-> 18, recording |-> 19]

F_TextMessage == [actor |-> 1, session |-> 2, channel_id |-> 3, message |-> 5]

F_PermissionQuery == [channel_id |-> 1, permissions |-> 2, flush |-> 3]

\* ------------------------------------------------------------------- state

VARIABLES
    config,         \* the protocol's configuration (read-only)
    received,       \* Protocol.received: accumulated, undecoded bytes
    channels,       \* Protocol.channels: channel_id -> Channel
    users,          \* Protocol.users: session -> User
    ourselves,      \* Protocol.ourselves: session of our own User, or None
    pinging,        \* Protocol.pinging
    transport,      \* "none", "open", "closed" (loseConnection), "lost"
    pingScheduled,  \* a reactor.callLater(ping_handler) is pending
    written,        \* frames handed to transport.write by the last operation
    events,         \* events run on the event manager by the last operation
    log,            \* error/warning lines logged by the last operation
    dispatched,     \* (msg_type, message) passed to recvProtobuf by the last operation
    op,             \* the last operation
    wire,           \* bytes sent by the server and not yet delivered
    hist,           \* history: frames sent by the server, bytes delivered,
                    \* messages dispatched, tags of the first frames
                    \* written, and whether a delivery ended inside a frame
    peer,           \* the attributes set on a second Protocol instance
    callbacks,      \* EventManager.callbacks: callback name -> handler list
    invoked,        \* the handlers called by the last EventManager.run_callback
    main_config,    \* Manager.main_config: the configured plugins
    all_plugins,    \* Manager.all_plugins: plugin name -> its dependencies
    loaded_plugins, \* Manager.loaded_plugins: the names of the loaded plugins
    args,           \* the arguments of the last call
    result,         \* what the last call returned, or the exception it raised
    threads         \* a threaded run_callback: the loop's frame and the
                    \* threads started and not yet run

vars ==
    << config, received, channels, users, ourselves, pinging, transport,
       pingScheduled, written, events, log, dispatched, op, wire, hist,
       peer, callbacks, invoked, main_config, all_plugins, loaded_plugins,
       args, result, threads >>

\* The plugin manager, the value returned last and the threaded dispatch.
system ==
    <<main_config, all_plugins, loaded_plugins, args, result, threads>>

\* What the operations of one Protocol instance leave alone: the other
\* instance's own attributes, the event manager and the plugin manager.
others == <<peer, callbacks, invoked, system>>

\* The protocol object ("self") the handlers work on; exc is the exception
\* in flight, if any; cmd_result is what the command manager answers to
\* run_command during this operation; cancel tells whether a subscriber
\* sets event.cancelled on the PreCommand or MessageSent event published
\* during this operation, and rewrite which text a subscriber leaves in
\* event.message of a MessageSent event, if it replaces the text.
Self ==
    [config |-> config, received |-> received, channels |-> channels,
     users |-> users, ourselves |-> ourselves, pinging |-> pinging,
     transport |-> transport, pingScheduled |-> pingScheduled,
     written |-> <<>>, events |-> <<>>, log |-> <<>>, dispatched |-> <<>>,
     exc |-> FALSE, cmd_result |-> "ok", cancel |-> FALSE,
     rewrite |-> [on |-> FALSE, text |-> <<>>], result |-> "None"]

Store(p) ==
    /\ received' = p.received
    /\ channels' = p.channels
    /\ users' = p.users
    /\ ourselves' = p.ourselves
    /\ pinging' = p.pinging
    /\ transport' = p.transport
    /\ pingScheduled' = p.pingScheduled
    /\ written' = p.written
    /\ events' = p.events
    /\ log' = p.log
    /\ dispatched' = p.dispatched

Raise(p) == [p EXCEPT !.exc = TRUE]

LogLine(p, line) == [p EXCEPT !.log = Append(@, line)]

\* self.event_manager.run_callback(name, event): handler errors are caught
\* by the event manager, so publishing never raises.
run_callback(p, name, a, b) ==
    [p EXCEPT !.events = Append(@, [name |-> name, a |-> a, b |-> b])]

\* self.transport.loseConnection()
loseConnection(p) ==
    [p EXCEPT !.transport = IF @ = "open" THEN "closed" ELSE @]

\* ---------------------------------------------------------------- encoding

\* Lines 219-226: the frame of a message, header and payload.
EncodeFrame(message) ==
    LET msg_type == MESSAGE_ID[message.kind]
        msg_data == SerializeToString(message.fields)
        length   == Len(msg_data)
    IN  PackPrefix(msg_type, length) \o msg_data

\* Lines 218-229: self.transport.write(data)
sendProtobuf(p, message) ==
    [p EXCEPT !.written = Append(@, EncodeFrame(message))]

\* ------------------------------------------------------- channels and users

\* Channel(protocol, channel_id, name, parent, position, links)
Channel(channel_id, name, parent, position, links) ==
    [channel_id |-> channel_id, name |-> name, parent |-> parent,
     position |-> position, links |-> Range(links), users |-> {}]

\* User(protocol, session, name, channel, mute, deaf, suppress, self_mute,
\*      self_deaf, priority_speaker, recording); channel is the id of the
\* Channel object the user refers to.
User(session, name, channel, mute, deaf, suppress, self_mute, self_deaf, priority_speaker, recording) ==
    [session |-> session, nickname |-> name, channel |-> channel,
     mute |-> mute, deaf |-> deaf, suppress |-> suppress,
     self_mute |-> self_mute, self_deaf |-> self_deaf,
     priority_speaker |-> priority_speaker, recording |-> recording,
     is_tracked |-> TRUE]

\* channel.add_user(user) / channel.remove_user(user)
add_user(p, cid, session) ==
    [p EXCEPT !.channels[cid].users = @ \cup {session}]

remove_user(p, cid, session) ==
    [p EXCEPT !.channels[cid].users = @ \ {session}]

\* channel.add_link(link) / channel.remove_link(link)
add_link(p, cid, link) ==
    [p EXCEPT !.channels[cid].links = @ \cup {link}]

remove_link(p, cid, link) ==
    [p EXCEPT !.channels[cid].links = @ \ {link}]

\* self.channels[key] = value / self.users[key] = value / del self.users[key]
SetItem(d, key, value) ==
    [k \in DOMAIN d \cup {key} |-> IF k = key THEN value ELSE d[k]]

DelItem(d, key) == [k \in DOMAIN d \ {key} |-> d[k]]

\* str.lower() on a byte string
Lower(s) == [i \in 1..Len(s) |-> IF s[i] \in 65..90 THEN s[i] + 32 ELSE s[i]]

\* get_channel(name_or_id) with a name: the first channel whose lowered name
\* matches, or None.
get_channel_by_name(p, name) ==
    LET hits == {c \in DOMAIN p.channels :
                    Lower(p.channels[c].name) = Lower(name)}
    IN  IF hits = {} THEN None
        ELSE CHOOSE c \in hits : \A d \in hits : c <= d

\* get_channel(name_or_id) with an id
get_channel_by_id(p, id) == IF id \in DOMAIN p.channels THEN id ELSE None

\* join_channel(channel) with a Channel object
join_channel(p, cid) ==
    sendProtobuf(p, Message("UserState",
                            <<Field(F_UserState.channel_id, 0, cid)>>))

\* ------------------------------------------------------------ ChannelState

\* The debug loop over the initial links of a channel that is being created
\* (lines 384-387): each iteration looks up self.channels[link] and
\* self.channels[message.channel_id].
RECURSIVE DebugInitialLinks(_, _, _)
DebugInitialLinks(p, links, cid) ==
    IF links = <<>> THEN p
    ELSE IF Head(links) \notin DOMAIN p.channels \/ cid \notin DOMAIN p.channels
    THEN Raise(p)
    ELSE DebugInitialLinks(p, Tail(links), cid)

\* Lines 388-394: self.channels[message.channel_id] = Channel(...)
NewChannel(q, message) ==
    IF q.exc THEN q
    ELSE [q EXCEPT !.channels =
            SetItem(@, GetField(message, F_ChannelState.channel_id, 0),
                    Channel(GetField(message, F_ChannelState.channel_id, 0),
                            GetField(message, F_ChannelState.name, <<>>),
                            IF HasField(message, F_ChannelState.parent)
                            THEN GetField(message, F_ChannelState.parent, 0)
                            ELSE None,
                            GetField(message, F_ChannelState.position, 0),
                            Repeated(message, F_ChannelState.links)))]

\* Lines 377-394: the channel is not known yet.
CreateChannel(p, message) ==
    NewChannel(DebugInitialLinks(p, Repeated(message, F_ChannelState.links),
                                 GetField(message, F_ChannelState.channel_id, 0)),
               message)

\* A links_add loop that replaces the link set by the link added.
RECURSIVE LinksAddReplace(_, _, _)
LinksAddReplace(p, links, cid) ==
    IF links = <<>> \/ p.exc THEN p
    ELSE IF cid \notin DOMAIN p.channels THEN Raise(p)
    ELSE LET link == Head(links)
             q == [p EXCEPT !.channels[cid].links = {link}]
         IN  IF link \notin DOMAIN q.channels THEN Raise(q)
             ELSE LinksAddReplace(
                      run_callback(q, "Mumble/ChannelLinked", link, cid),
                      Tail(links), cid)

\* Lines 395-406: for link in message.links_add
RECURSIVE LinksAdd(_, _, _)
LinksAdd(p, links, cid) ==
    IF links = <<>> \/ p.exc THEN p
    ELSE IF cid \notin DOMAIN p.channels THEN Raise(p)
    ELSE LET link == Head(links)
             q == add_link(p, cid, link)
         IN  IF link \notin DOMAIN q.channels THEN Raise(q)
             ELSE LinksAdd(run_callback(q, "Mumble/ChannelLinked", link, cid),
                           Tail(links), cid)

\* Lines 407-418: for link in message.links_remove
RECURSIVE LinksRemove(_, _, _)
LinksRemove(p, links, cid) ==
    IF links = <<>> \/ p.exc THEN p
    ELSE IF cid \notin DOMAIN p.channels THEN Raise(p)
    ELSE LET link == Head(links)
             q == remove_link(p, cid, link)
         IN  IF link \notin DOMAIN q.channels THEN Raise(q)
             ELSE LinksRemove(run_callback(q, "Mumble/ChannelUnlinked", link, cid),
                              Tail(links), cid)

handle_msg_channelstate(p, message) ==
    LET cid == GetField(message, F_ChannelState.channel_id, 0)
        a == IF cid \notin DOMAIN p.channels THEN CreateChannel(p, message)
             ELSE p
        b == LinksAdd(a, Repeated(message, F_ChannelState.links_add), cid)
    IN  LinksRemove(b, Repeated(message, F_ChannelState.links_remove), cid)

\* --------------------------------------------------------------- UserState

\* Lines 447-465: the initial channel join, inside try/except.
InitialJoin(p) ==
    LET conf == p.config.channel
    IN  IF ~p.config.has_channel
        THEN LogLine(p, "Config is missing 'channel' section")
        ELSE IF conf.id # None /\ conf.id # 0
        THEN IF conf.id \in DOMAIN p.channels
             THEN join_channel(p, conf.id)
             ELSE LogLine(p, "No channel with id")
        ELSE IF conf.name # <<>>
        THEN LET chan == get_channel_by_name(p, conf.name)
             IN  IF chan # None THEN join_channel(p, chan)
                 ELSE LogLine(p, "No channel with name")
        ELSE LogLine(p, "No channel found in config")

\* Lines 424-435: self.users[message.session] = User(...)
NewUser(p, message) ==
    [p EXCEPT !.users =
        SetItem(@, GetField(message, F_UserState.session, 0),
                User(GetField(message, F_UserState.session, 0),
                     GetField(message, F_UserState.name, <<>>),
                     GetField(message, F_UserState.channel_id, 0),
                     GetBool(message, F_UserState.mute),
                     GetBool(message, F_UserState.deaf),
                     GetBool(message, F_UserState.suppress),
                     GetBool(message, F_UserState.self_mute),
                     GetBool(message, F_UserState.self_deaf),
                     GetBool(message, F_UserState.priority_speaker),
                     GetBool(message, F_UserState.recording)))]

\* Lines 443-469: our own user, or somebody else's.
Announce(b, session, name, cid) ==
    IF name = b.config.username
    THEN InitialJoin([b EXCEPT !.ourselves = session])
    ELSE run_callback(b, "Mumble/UserJoined", session, cid)

\* Lines 421-469: a name is given and the session is not known.
FirstSight(p, message) ==
    IF GetField(message, F_UserState.channel_id, 0) \notin DOMAIN p.channels
    THEN Raise(p)
    ELSE Announce(add_user(NewUser(p, message),
                           GetField(message, F_UserState.channel_id, 0),
                           GetField(message, F_UserState.session, 0)),
                  GetField(message, F_UserState.session, 0),
                  GetField(message, F_UserState.name, <<>>),
                  GetField(message, F_UserState.channel_id, 0))

\* Lines 473-486: the user moved to another channel.
MoveNoRemove(p, message, session) ==
    LET cid == GetField(message, F_UserState.channel_id, 0)
        old == p.users[session].channel
        b == add_user(p, cid, session)
        c == [b EXCEPT !.users[session].channel = cid]
    IN  run_callback(c, "Mumble/UserMoved", session, old)

Move(p, message, session) ==
    LET cid == GetField(message, F_UserState.channel_id, 0)
        old == p.users[session].channel
        a == remove_user(p, old, session)
        b == add_user(a, cid, session)
        c == [b EXCEPT !.users[session].channel = cid]
    IN  run_callback(c, "Mumble/UserMoved", session, old)

StepChannel(p, message, session) ==
    IF p.exc \/ ~HasField(message, F_UserState.channel_id) THEN p
    ELSE IF GetField(message, F_UserState.actor, 0) \notin DOMAIN p.users
    THEN Raise(p)
    ELSE IF GetField(message, F_UserState.channel_id, 0) \notin DOMAIN p.channels
    THEN Raise(p)
    ELSE Move(p, message, session)

\* Lines 487-510 and 544-557: a flag set by an actor, who must be known.
StepActorFlag(p, message, session, num, attr, event) ==
    IF p.exc \/ ~HasField(message, num) THEN p
    ELSE IF GetField(message, F_UserState.actor, 0) \notin DOMAIN p.users
    THEN Raise(p)
    ELSE run_callback([p EXCEPT !.users[session][attr] = GetBool(message, num)],
                      event, session,
                      GetField(message, F_UserState.actor, 0))

\* Lines 511-543: a flag that needs no actor.
StepFlag(p, message, session, num, attr, event) ==
    IF p.exc \/ ~HasField(message, num) THEN p
    ELSE run_callback([p EXCEPT !.users[session][attr] = GetBool(message, num)],
                      event, session, None)

\* Lines 558-566: the recording event is built and never run.
StepRecording(p, message, session) ==
    IF p.exc \/ ~HasField(message, F_UserState.recording) THEN p
    ELSE [p EXCEPT !.users[session].recording =
                        GetBool(message, F_UserState.recording)]

\* Lines 470-566: the session is known, or no name is given.
Delta(p, message) ==
    LET session == GetField(message, F_UserState.session, 0)
    IN  IF session \notin DOMAIN p.users THEN Raise(p)
        ELSE
          LET s1 == StepChannel(p, message, session)
              s2 == StepActorFlag(s1, message, session, F_UserState.mute,
                                  "mute", "Mumble/UserMuteToggle")
              s3 == StepActorFlag(s2, message, session, F_UserState.deaf,
                                  "deaf", "Mumble/UserDeafToggle")
              s4 == StepFlag(s3, message, session, F_UserState.suppress,
                             "suppress", "Mumble/UserSuppressionToggle")
              s5 == StepFlag(s4, message, session, F_UserState.self_mute,
                             "self_mute", "Mumble/UserSelfMuteToggle")
              s6 == StepFlag(s5, message, session, F_UserState.self_deaf,
                             "self_deaf", "Mumble/UserSelfDeafToggle")
              s7 == StepActorFlag(s6, message, session,
                                  F_UserState.priority_speaker,
                                  "priority_speaker",
                                  "Mumble/UserPrioritySpeakerToggle")
          IN  StepRecording(s7, message, session)

handle_msg_userstate(p, message) ==
    IF /\ GetField(message, F_UserState.name, <<>>) # <<>>
       /\ GetField(message, F_UserState.session, 0) \notin DOMAIN p.users
    THEN FirstSight(p, message)
    ELSE Delta(p, message)

\* Lines 325-349: UserRemove
\* Lines 332-340: the user leaves its channel and the index.
ForgetUser(p, session) ==
    IF session \in DOMAIN p.users
    THEN [remove_user(p, p.users[session].channel, session) EXCEPT
             !.users = DelItem(@, session)]
    ELSE p

\* Lines 342-346: the removal event, when the actor is known.
RemovalEvent(a, session, actor) ==
    IF actor \in DOMAIN a.users
    THEN run_callback(a, "Mumble/UserRemove", session, actor)
    ELSE a

handle_userremove(p, message) ==
    run_callback(
        RemovalEvent(ForgetUser(p, GetField(message, F_UserRemove.session, 0)),
                     GetField(message, F_UserRemove.session, 0),
                     GetField(message, F_UserRemove.actor, 0)),
        "UserDisconnected",
        IF GetField(message, F_UserRemove.session, 0) \in DOMAIN p.users
        THEN GetField(message, F_UserRemove.session, 0) ELSE None,
        None)

\* ------------------------------------------------------------- TextMessage

Whitespace == {9, 10, 11, 12, 13, 32}

StartsWith(s, prefix) ==
    Len(s) >= Len(prefix) /\ Take(s, Len(prefix)) = prefix

\* str.replace(old, new)
RECURSIVE Replace(_, _, _)
Replace(s, old, new) ==
    IF s = <<>> \/ old = <<>> THEN s
    ELSE IF StartsWith(s, old) THEN new \o Replace(Drop(s, Len(old)), old, new)
    ELSE <<Head(s)>> \o Replace(Tail(s), old, new)

RECURSIVE LStrip(_)
LStrip(s) == IF s # <<>> /\ Head(s) \in Whitespace THEN LStrip(Tail(s)) ELSE s

\* The length of the leading run of s without whitespace.
RECURSIVE WordLen(_)
WordLen(s) == IF s = <<>> \/ Head(s) \in Whitespace THEN 0 ELSE 1 + WordLen(Tail(s))

\* str.split(None, 1)
Split1(s) ==
    LET t == LStrip(s)
        n == WordLen(t)
        rest == LStrip(Drop(t, n))
    IN  IF t = <<>> THEN <<>>
        ELSE IF rest = <<>> THEN <<Take(t, n)>>
        ELSE <<Take(t, n), rest>>

\* utils.html.html_to_text(text, True): the text without its markup tags.
RECURSIVE html_to_text(_)
html_to_text(s) ==
    IF s = <<>> THEN <<>>
    ELSE IF Head(s) = 60 /\ 62 \in Range(s)
    THEN html_to_text(Drop(s, CHOOSE i \in 1..Len(s) :
                                 s[i] = 62 /\ \A j \in 1..(i - 1) : s[j] # 62))
    ELSE <<Head(s)>> \o html_to_text(Tail(s))

NICK == <<123, 78, 73, 67, 75, 125>>

\* A command interceptor that takes every answer of the command manager
\* for a command that was found.
CommandResultFound(b) ==
    IF b.cmd_result = "unauthorized"
    THEN [p |-> LogLine(b, "not authorized"), ret |-> TRUE]
    ELSE [p |-> b, ret |-> TRUE]

\* handle_command(source, target, message): [p, ret]; ret is the value
\* returned, when no exception is raised.
\* Lines 596-612: what handle_command makes of run_command's answer
\* (a, b): "ok" is (True, _), "unauthorized" (False, True), "not_found"
\* (False, None) and "error" (False, exception).
CommandResult(b) ==
    IF b.cmd_result = "ok" THEN [p |-> b, ret |-> TRUE]
    ELSE IF b.cmd_result = "unauthorized"
    THEN [p |-> LogLine(b, "not authorized"), ret |-> TRUE]
    ELSE IF b.cmd_result = "not_found" THEN [p |-> b, ret |-> FALSE]
    ELSE [p |-> LogLine(b, "An error occured"), ret |-> TRUE]

\* Lines 585-587: the PreCommand event, as the subscribers leave it.
PreCommand(p, split) ==
    [name |-> "PreCommand", a |-> split[1],
     b |-> IF Len(split) > 1 THEN split[2] ELSE <<>>,
     cancelled |-> p.cancel]

\* Lines 589-612: run_command is called with the event's command and
\* arguments, whatever the event's cancelled flag; result is its answer.
run_command(p, event) ==
    CommandResult(
        [p EXCEPT !.events =
            Append(@, [name |-> "run_command", a |-> event.a, b |-> event.b,
                       result |-> p.cmd_result])])

\* Lines 579-594: split the text, publish PreCommand, run the command.
RunCommand(p, split) ==
    IF split = <<>> THEN [p |-> Raise(p), ret |-> FALSE]
    ELSE run_command([p EXCEPT !.events = Append(@, PreCommand(p, split))],
                     PreCommand(p, split))

\* The command prefix, lowered (line 573).
ControlChars(p) ==
    Lower(Replace(p.config.control_chars, NICK, p.config.username))

\* A command interceptor that takes every message for a command.
handle_commandAlways(p, source, target, message) ==
    RunCommand(p, Split1(Drop(message, Len(ControlChars(p)))))

\* Lines 568-613
handle_command(p, source, target, message) ==
    IF ~StartsWith(Lower(message), ControlChars(p))
    THEN [p |-> p, ret |-> FALSE]
    ELSE RunCommand(p, Split1(Drop(message, Len(ControlChars(p)))))

\* Lines 629-647: ordinary chat, unless the text was a command.
ChatEvents(r, actor, msg) ==
    IF r.p.exc \/ r.ret THEN r.p
    ELSE [r.p EXCEPT !.events =
             @ \o << [name |-> "PreMessageReceived", a |-> actor, b |-> msg],
                     [name |-> "MessageReceived", a |-> actor, b |-> msg] >>]

\* Lines 618-629, with the text already converted.
TextFrom(p, actor, chans, msg) ==
    ChatEvents(handle_command(p, actor,
                              IF chans # <<>> THEN chans[1] ELSE actor, msg),
               actor, msg)

handle_msg_textmessage(p, message) ==
    LET actor == GetField(message, F_TextMessage.actor, 0)
        chans == Repeated(message, F_TextMessage.channel_id)
    IN  IF actor \notin DOMAIN p.users THEN p
        ELSE IF chans # <<>> /\ chans[1] \notin DOMAIN p.channels THEN Raise(p)
        ELSE TextFrom(p, actor, chans,
                      html_to_text(GetField(message, F_TextMessage.message,
                                            <<>>)))

\* ------------------------------------------------------- outbound messages

\* cgi.escape(message): "&", "<" and ">" become "&amp;", "&lt;" and "&gt;".
RECURSIVE Escape(_)
Escape(s) ==
    IF s = <<>> THEN <<>>
    ELSE (CASE Head(s) = 38 -> <<38, 97, 109, 112, 59>>
            [] Head(s) = 60 -> <<38, 108, 116, 59>>
            [] Head(s) = 62 -> <<38, 103, 116, 59>>
            [] OTHER -> <<Head(s)>>) \o Escape(Tail(s))

\* Lines 726-731: the TextMessage for a channel or for a user's session.
TextMessageTo(message, target, target_id) ==
    Message("TextMessage",
            << Field(IF target = "channel" THEN F_TextMessage.channel_id
                     ELSE F_TextMessage.session, 0, target_id),
               Field(F_TextMessage.message, 2, message) >>)

\* Lines 718-733: msg(message, target, target_id). self.ourselves is the
\* User object stored under the session p.ourselves; reading its channel
\* when it is None raises AttributeError.
msg(p, message, target, target_id) ==
    IF target_id # None \/ target # "channel"
    THEN sendProtobuf(p, TextMessageTo(Escape(message), target, target_id))
    ELSE IF p.ourselves = None THEN Raise(p)
    ELSE sendProtobuf(p, TextMessageTo(Escape(message), "channel",
                                       p.users[p.ourselves].channel))

\* Lines 740-744 and 755-759: the MessageSent event, as the subscribers
\* leave it.
MessageSent(p, target, message) ==
    [name |-> "MessageSent", a |-> target,
     b |-> IF p.rewrite.on THEN p.rewrite.text ELSE message,
     cancelled |-> p.cancel]

\* Lines 739-748 and 754-763: publish the event, if asked to, and send the
\* text it holds afterwards, whatever its cancelled flag.
SendVia(p, message, target, target_id, use_event) ==
    IF use_event
    THEN msg([p EXCEPT !.events =
                 Append(@, MessageSent(p, target_id, message))],
             MessageSent(p, target_id, message).b, target, target_id)
    ELSE msg(p, message, target, target_id)

\* Lines 735-748: msg_channel(message, channel, use_event) with a channel
\* id; self.channels[channel] raises KeyError for an unknown id.
msg_channel(p, message, channel, use_event) ==
    IF channel \notin DOMAIN p.channels THEN Raise(p)
    ELSE SendVia(p, message, "channel", channel, use_event)

\* Lines 750-763: msg_user(message, user, use_event) with a session.
msg_user(p, message, user, use_event) ==
    IF user \notin DOMAIN p.users THEN Raise(p)
    ELSE SendVia(p, message, "user", user, use_event)

\* "Disconnecting: Protocol shutdown"
DISCONNECTING ==
    << 68, 105, 115, 99, 111, 110, 110, 101, 99, 116, 105, 110, 103, 58, 32,
       80, 114, 111, 116, 111, 99, 111, 108, 32, 115, 104, 117, 116, 100,
       111, 119, 110 >>

\* If msg raised, loseConnection is not reached.
CloseUnlessRaised(b) == IF b.exc THEN b ELSE loseConnection(b)

\* Lines 130-132: shutdown()
shutdown(p) == CloseUnlessRaised(msg(p, DISCONNECTING, "channel", None))

\* ---------------------------------------------------------------- dispatch

\* A Reject handler that leaves the keepalive running.
RejectedStillPinging(p, message) ==
    loseConnection(
        LogLine(p, [line |-> "Could not connect to server",
                    type |-> GetField(message, F_Reject.type, 0),
                    reason |-> GetField(message, F_Reject.reason, <<>>)]))

\* Lines 237-243: the Reject branch. The line logged is "Could not connect
\* to server: %s - %s" % (message.type, message.reason).
Rejected(p, message) ==
    [loseConnection(
         LogLine(p, [line |-> "Could not connect to server",
                     type |-> GetField(message, F_Reject.type, 0),
                     reason |-> GetField(message, F_Reject.reason, <<>>)]))
        EXCEPT !.pinging = FALSE]

\* Lines 231-359
recvProtobuf(p, msg_type, message) ==
    CASE message.kind = "Version" ->
            run_callback(p, "PostSetup", None, None)
      [] message.kind = "Reject" ->
            Rejected(p, message)
      [] message.kind = "CodecVersion" ->
            run_callback(p, "Mumble/CodecVersion", None, None)
      [] message.kind = "CryptSetup" ->
            run_callback(p, "Mumble/CryptoSetup", None, None)
      [] message.kind = "ChannelState" ->
            handle_msg_channelstate(p, message)
      [] message.kind = "PermissionQuery" ->
            IF GetField(message, F_PermissionQuery.channel_id, 0)
                  \notin DOMAIN p.channels
            THEN Raise(p)
            ELSE run_callback(p, "Mumble/PermissionsQuery",
                              GetField(message, F_PermissionQuery.channel_id, 0),
                              None)
      [] message.kind = "UserState" ->
            handle_msg_userstate(p, message)
      [] message.kind = "ServerSync" ->
            run_callback(p, "Mumble/ServerSync", None, None)
      [] message.kind = "ServerConfig" ->
            run_callback(p, "Mumble/ServerConfig", None, None)
      [] message.kind = "Ping" ->
            run_callback(p, "Mumble/Ping", None, None)
      [] message.kind = "UserRemove" ->
            handle_userremove(p, message)
      [] message.kind = "TextMessage" ->
            handle_msg_textmessage(p, message)
      [] OTHER ->
            run_callback(p, "Mumble/Unknown", msg_type, None)

\* ---------------------------------------------------------------- decoding

\* An exception leaves dataReceived: the reactor logs it and drops the
\* connection.
Unhandled(p) ==
    [LogLine(p, "Unhandled Error") EXCEPT !.transport = "lost"]

\* Lines 209-214: recvProtobuf inside try/except.
Caught(b) ==
    IF b.exc
    THEN [LogLine(b, "Exception while handling data.") EXCEPT !.exc = FALSE]
    ELSE b

\* A dispatcher that ignores the kinds after PermissionQuery.
TryRecvProtobufPartial(p, msg_type, message) ==
    IF msg_type > 20
    THEN [p EXCEPT !.dispatched =
            Append(@, [msg_type |-> msg_type, message |-> message])]
    ELSE Caught(recvProtobuf(
                    [p EXCEPT !.dispatched =
                        Append(@, [msg_type |-> msg_type, message |-> message])],
                    msg_type, message))

\* Lines 210-214: try: self.recvProtobuf(msg_type, message)
TryRecvProtobuf(p, msg_type, message) ==
    Caught(recvProtobuf(
               [p EXCEPT !.dispatched =
                   Append(@, [msg_type |-> msg_type, message |-> message])],
               msg_type, message))

\* A consumer that empties the buffer instead of removing one frame.
ConsumeAll(p, full_length) == [p EXCEPT !.received = <<>>]

\* Line 216: self.received = self.received[full_length:]
Consume(p, full_length) == [p EXCEPT !.received = Drop(@, full_length)]

\* Lines 182-216: one pass of the while loop of dataReceived, entered with
\* at least PREFIX_LENGTH bytes buffered: [p, again]; again is FALSE when
\* the pass returns from dataReceived.
\* Lines 203-216: the frame is complete; parsed is what ParseFromString
\* made of its payload.
HandleFrame(p, msg_type, full_length, parsed) ==
    IF ~parsed.ok THEN [p |-> Unhandled(p), again |-> FALSE]
    ELSE [p |-> Consume(TryRecvProtobuf(
                            p, msg_type,
                            Message(ID_MESSAGE[msg_type + 1], parsed.fields)),
                        full_length),
          again |-> TRUE]

FrameStep(p) ==
    LET msg_type    == UnpackType(p.received)
        full_length == PREFIX_LENGTH + UnpackLength(p.received)
    IN  IF ~ValidTag(msg_type)
        THEN [p |-> loseConnection(LogLine(p, "Message ID not available.")),
              again |-> FALSE]
        ELSE IF Len(p.received) < full_length
        THEN [p |-> p, again |-> FALSE]
        ELSE IF msg_type + 1 \notin DOMAIN ID_MESSAGE
        THEN [p |-> Unhandled(p), again |-> FALSE]
        ELSE HandleFrame(p, msg_type, full_length,
                         ParseFromString(SubSeq(p.received, PREFIX_LENGTH + 1,
                                                full_length)))

\* Lines 181-216: while len(self.received) >= Protocol.PREFIX_LENGTH
FrameLoopOnce(p) ==
    IF Len(p.received) < PREFIX_LENGTH THEN p ELSE FrameStep(p).p

RECURSIVE FrameLoop(_)

Again(r) == IF r.again THEN FrameLoop(r.p) ELSE r.p

FrameLoop(p) ==
    IF Len(p.received) < PREFIX_LENGTH THEN p ELSE Again(FrameStep(p))

\* Lines 176-216
dataReceivedNoAppend(p, recv) == FrameLoop([p EXCEPT !.received = recv])

dataReceived(p, recv) == FrameLoop([p EXCEPT !.received = @ \o recv])

\* ------------------------------------------------- connection and keepalive

VERSION_DATA == 66052

RELEASE == <<49, 46, 50, 46, 52>>

OS_NAME == <<76, 105, 110, 117, 120>>

OS_VERSION ==
    << 77, 117, 109, 98, 108, 101, 32, 49, 46, 50, 46, 52, 32, 84, 119, 105,
       115, 116, 101, 100, 32, 80, 114, 111, 116, 111, 99, 111, 108 >>

RECURSIVE TokenFields(_)
TokenFields(tokens) ==
    IF tokens = <<>> THEN <<>>
    ELSE <<Field(F_Authenticate.tokens, 2, Head(tokens))>>
         \o TokenFields(Tail(tokens))

\* reactor.callLater(PING_REPEAT_TIME, self.ping_handler)
init_ping(p) == [p EXCEPT !.pingScheduled = TRUE]

\* Lines 142-149
VersionMessage ==
    Message("Version",
            << Field(F_Version.version, 0, VERSION_DATA),
               Field(F_Version.release, 2, RELEASE),
               Field(F_Version.os, 2, OS_NAME),
               Field(F_Version.os_version, 2, OS_VERSION) >>)

\* Lines 152-157
AuthMessage(p) ==
    Message("Authenticate",
            <<Field(F_Authenticate.username, 2, p.config.username)>>
            \o (IF p.config.password # <<>>
                THEN <<Field(F_Authenticate.password, 2, p.config.password)>>
                ELSE <<>>)
            \o TokenFields(p.config.tokens))

\* Lines 170-172
SelfMuteMessage ==
    Message("UserState",
            << Field(F_UserState.self_mute, 0, 1),
               Field(F_UserState.self_deaf, 0, 1) >>)

connectionMadeAuthFirst(p) ==
    sendProtobuf(
        init_ping(
            run_callback(
                sendProtobuf(sendProtobuf(p, AuthMessage(p)), VersionMessage),
                "PreSetup", None, None)),
        SelfMuteMessage)

connectionMade(p) ==
    sendProtobuf(
        init_ping(
            run_callback(
                sendProtobuf(sendProtobuf(p, VersionMessage), AuthMessage(p)),
                "PreSetup", None, None)),
        SelfMuteMessage)

\* A keepalive that does not look at the pinging flag.
ping_handlerAlways(p) == init_ping(sendProtobuf(p, Message("Ping", <<>>)))

\* Lines 365-374
ping_handler(p) ==
    IF ~p.pinging THEN p
    ELSE init_ping(sendProtobuf(p, Message("Ping", <<>>)))

\* ------------------------------------------------------------------ inputs

\* Configurations: identity, command prefix and initial channel.
Configs ==
    { [username |-> <<97>>, password |-> <<>>, tokens |-> <<>>,
       control_chars |-> <<33>>, has_channel |-> TRUE,
       channel |-> [id |-> 1, name |-> <<>>]] }

\* What the command manager may answer to run_command.
CmdResults == {"ok", "unauthorized", "not_found", "error"}

\* A frame the server sends: its bytes, whether it is well-formed ("ok"),
\* carries a tag outside the table ("badtag") or a payload that does not
\* deserialize ("malformed"), and for a well-formed one the message in it.
OkFrame(m) ==
    [data |-> EncodeFrame(m), class |-> "ok", kind |-> m.kind,
     fields |-> m.fields]

RawFrame(data, class) ==
    [data |-> data, class |-> class, kind |-> "", fields |-> <<>>]

\* Messages of the framing specification: a version message with a payload
\* of five bytes, an empty ping, a reject, the root channel and our own
\* user.
FrameMsgs ==
    { Message("Version", <<Field(1, 0, 1), Field(2, 2, <<49>>)>>),
       Message("Ping", <<>>),
       Message("Reject", <<Field(1, 0, 1)>>),
       Message("ChannelState", <<Field(1, 0, 0), Field(3, 2, <<114>>)>>),
       Message("UserState",
              <<Field(1, 0, 1), Field(3, 2, <<97>>), Field(5, 0, 0)>>) }

\* One message of every kind, with an empty payload.
KindMsgs == {Message(k, <<>>) : k \in Range(ID_MESSAGE)}

BadFrames ==
    { RawFrame(<<0, 25, 0, 0, 0, 0>>, "badtag"),
      RawFrame(<<1, 0, 0, 0, 0, 0>>, "badtag"),
      RawFrame(<<0, 3, 0, 0, 0, 1, 8>>, "malformed") }

ServerFrames == {OkFrame(m) : m \in FrameMsgs} \cup BadFrames

KindFrames == {OkFrame(m) : m \in KindMsgs}

\* The frames the server may send next: the first frame of a stream is of
\* any kind, the following ones come from the smaller set.
NextFrames(sent) ==
    IF sent = <<>> THEN ServerFrames \cup KindFrames ELSE ServerFrames

\* -------------------------------------------------------------------- Init

EmptyDict == [k \in {} |-> 0]

\* Lines 93-102: a Protocol instance that was constructed and is not
\* connected: received is set by __init__, pinging and ourselves are read
\* from the class until the instance assigns them.
NewInstance ==
    [received |-> <<>>, ourselves |-> None, pinging |-> TRUE,
     transport |-> "none", pingScheduled |-> FALSE]

\* The second instance is constructed and the event manager has no handler.
\* What a call that returns nothing (Python's None) leaves as its result.
NoResult == "None"

NoArgs == [name |-> <<>>]

\* No threaded run_callback is under way.
NoThreads == [cbs |-> <<>>, i |-> 0, pending |-> 0]

InitOthers ==
    /\ peer = NewInstance
    /\ callbacks = EmptyDict
    /\ invoked = <<>>
    /\ main_config = [plugins |-> {}]
    /\ all_plugins = EmptyDict
    /\ loaded_plugins = {}
    /\ args = NoArgs
    /\ result = NoResult
    /\ threads = NoThreads

Init ==
    /\ config \in Configs
    /\ received = <<>>
    /\ channels = EmptyDict
    /\ users = EmptyDict
    /\ ourselves = None
    /\ pinging = TRUE
    /\ transport = "none"
    /\ pingScheduled = FALSE
    /\ written = <<>>
    /\ events = <<>>
    /\ log = <<>>
    /\ dispatched = <<>>
    /\ op = "init"
    /\ wire = <<>>
    /\ hist = [sent |-> <<>>, delivered |-> <<>>, dispatched |-> <<>>,
               written |-> <<>>, split |-> FALSE]
    /\ InitOthers

\* ----------------------------------------------------------------- actions

RECURSIVE TagsOf(_)
TagsOf(frames) ==
    IF frames = <<>> THEN <<>>
    ELSE <<UnpackType(Head(frames))>> \o TagsOf(Tail(frames))

\* The tags of the first MaxWritten frames written.
FirstWritten(old, frames) ==
    IF Len(old) >= MaxWritten THEN old
    ELSE Take(old \o TagsOf(frames), 
              IF Len(old) + Len(frames) < MaxWritten
              THEN Len(old) + Len(frames) ELSE MaxWritten)

\* The outcome p of an operation becomes the state; the history grows by
\* the bytes delivered to it, what it dispatched and what it wrote.
Commit(p, name, recv) ==
    /\ Store(p)
    /\ op' = name
    /\ hist' = [hist EXCEPT !.delivered = @ \o recv,
                            !.dispatched = @ \o p.dispatched,
                            !.written = FirstWritten(@, p.written),
                            !.split = @ \/ (recv # <<>> /\ p.received # <<>>)]
    /\ UNCHANGED <<config, others>>

\* The transport is connected: Twisted calls connectionMade.
ConnectionMade ==
    /\ transport = "none"
    /\ Commit(connectionMade([Self EXCEPT !.transport = "open"]),
              "connectionMade", <<>>)
    /\ UNCHANGED wire

\* The server sends one more frame.
ServerSend ==
    /\ transport \in {"open", "closed"}
    /\ Len(hist.sent) < MaxFrames
    /\ \E f \in NextFrames(hist.sent) :
          /\ wire' = wire \o f.data
          /\ hist' = [hist EXCEPT !.sent = Append(@, f)]
    /\ UNCHANGED <<config, received, channels, users, ourselves, pinging,
                   transport, pingScheduled, written, events, log,
                   dispatched, op, others>>

\* The transport delivers the next n bytes: dataReceived(recv).
Deliver ==
    /\ transport \in {"open", "closed"}
    /\ wire # <<>>
    /\ \E n \in 1..Len(wire) :
          /\ Commit(dataReceived(Self, Take(wire, n)), "dataReceived",
                    Take(wire, n))
          /\ wire' = Drop(wire, n)

\* The reactor fires the pending ping_handler call.
PingTick ==
    /\ pingScheduled
    /\ Commit(ping_handler([Self EXCEPT !.pingScheduled = FALSE]),
              "ping_handler", <<>>)
    /\ UNCHANGED wire

Next == ConnectionMade \/ ServerSend \/ Deliver \/ PingTick

Spec == Init /\ [][Next]_vars

\* ------------------------------------------------------- presence messages
\* A second specification: after the handshake the server sends whole
\* frames that describe channels and users, each delivered by one
\* dataReceived call. Channels 0..2 and sessions 1..2 may come to exist;
\* channel 3, session 3 and session 0 never do.

ChannelStates ==
    << Message("ChannelState", <<Field(1, 0, 0), Field(3, 2, <<114>>)>>),
       Message("ChannelState",
              <<Field(1, 0, 1), Field(2, 0, 0), Field(3, 2, <<98>>),
                Field(9, 0, 1)>>),
       Message("ChannelState",
              <<Field(1, 0, 2), Field(2, 0, 0), Field(3, 2, <<99>>),
                Field(4, 0, 0)>>),
       Message("ChannelState", <<Field(1, 0, 1), Field(6, 0, 0)>>),
       Message("ChannelState", <<Field(1, 0, 1), Field(6, 0, 3)>>),
       Message("ChannelState", <<Field(1, 0, 1), Field(7, 0, 0)>>) >>

UserStates ==
    << Message("UserState",
              <<Field(1, 0, 1), Field(3, 2, <<97>>), Field(5, 0, 0)>>),
       Message("UserState",
              <<Field(1, 0, 2), Field(3, 2, <<98>>), Field(5, 0, 1)>>),
       Message("UserState",
              <<Field(1, 0, 2), Field(3, 2, <<98>>), Field(5, 0, 3)>>),
       Message("UserState", <<Field(1, 0, 2), Field(2, 0, 1), Field(5, 0, 0)>>),
       Message("UserState", <<Field(1, 0, 2), Field(2, 0, 1), Field(5, 0, 1)>>),
       Message("UserState", <<Field(1, 0, 2), Field(5, 0, 0)>>),
       Message("UserState", <<Field(1, 0, 2), Field(2, 0, 1), Field(6, 0, 1)>>),
       Message("UserState",
              <<Field(1, 0, 2), Field(2, 0, 3), Field(8, 0, 1),
                Field(18, 0, 1)>>),
       Message("UserState", <<Field(1, 0, 2), Field(8, 0, 0)>>),
       Message("UserState", <<Field(1, 0, 3), Field(9, 0, 1)>>) >>

UserRemoves ==
    << Message("UserRemove", <<Field(1, 0, 2), Field(2, 0, 1)>>),
       Message("UserRemove", <<Field(1, 0, 1)>>),
       Message("UserRemove", <<Field(1, 0, 3)>>) >>

PermissionQueries ==
    << Message("PermissionQuery", <<Field(1, 0, 0), Field(2, 0, 1)>>),
       Message("PermissionQuery", <<Field(1, 0, 3)>>) >>

TextMessages ==
    << Message("TextMessage",
              <<Field(1, 0, 2), Field(3, 0, 0), Field(5, 2, <<104, 105>>)>>),
       Message("TextMessage",
              <<Field(1, 0, 2), Field(3, 0, 3), Field(5, 2, <<104, 105>>)>>),
       Message("TextMessage", <<Field(1, 0, 3), Field(5, 2, <<104, 105>>)>>),
       Message("TextMessage",
              <<Field(1, 0, 2), Field(2, 0, 1), Field(5, 2, <<33, 120>>)>>) >>

\* The outcome p of a delivery becomes the state; the stream history is
\* not kept in this specification.
CommitGraph(p) ==
    /\ Store(p)
    /\ op' = "dataReceived"
    /\ UNCHANGED <<config, wire, hist, others>>

\* The outcome p of a call made by a plugin or by the reactor becomes the
\* state.
CommitCall(p, name) ==
    /\ Store(p)
    /\ op' = name
    /\ UNCHANGED <<config, wire, hist, others>>

\* The server may send a frame: the connection is up and nothing is
\* buffered.
Idle == transport \in {"open", "closed"} /\ received = <<>>

\* The frame of message m arrives in one piece; the command manager would
\* answer r.
Recv(m, r) ==
    CommitGraph(dataReceived([Self EXCEPT !.cmd_result = r], EncodeFrame(m)))

RecvChannelState ==
    /\ Idle
    /\ \E i \in DOMAIN ChannelStates : Recv(ChannelStates[i], "ok")

RecvUserState ==
    /\ Idle
    /\ \E i \in DOMAIN UserStates : Recv(UserStates[i], "ok")

RecvUserRemove ==
    /\ Idle
    /\ \E i \in DOMAIN UserRemoves : Recv(UserRemoves[i], "ok")

RecvPermissionQuery ==
    /\ Idle
    /\ \E i \in DOMAIN PermissionQueries : Recv(PermissionQueries[i], "ok")

RecvTextMessage ==
    /\ Idle
    /\ \E i \in DOMAIN TextMessages : \E r \in CmdResults :
          Recv(TextMessages[i], r)

NextGraph ==
    \/ ConnectionMade
    \/ RecvChannelState
    \/ RecvUserState
    \/ RecvUserRemove
    \/ RecvPermissionQuery
    \/ RecvTextMessage

SpecGraph == Init /\ [][NextGraph]_vars

\* ------------------------------------------------------- channel messages
\* A third specification: channel descriptions, link deltas and channel
\* removals for channels 0..2, each frame delivered by one dataReceived
\* call.

ChannelDeltas ==
    << Message("ChannelState", <<Field(1, 0, 0), Field(3, 2, <<114>>)>>),
       Message("ChannelState",
               <<Field(1, 0, 1), Field(2, 0, 0), Field(3, 2, <<98>>)>>),
       Message("ChannelState",
               <<Field(1, 0, 2), Field(2, 0, 0), Field(3, 2, <<99>>)>>),
       Message("ChannelState", <<Field(1, 0, 2), Field(6, 0, 0)>>),
       Message("ChannelState", <<Field(1, 0, 2), Field(7, 0, 0)>>),
       Message("ChannelState",
               <<Field(1, 0, 2), Field(6, 0, 0), Field(6, 0, 1),
                 Field(7, 0, 1)>>),
       Message("ChannelState", <<Field(1, 0, 2), Field(6, 0, 1)>>),
       Message("ChannelState", <<Field(1, 0, 1), Field(6, 0, 2)>>) >>

ChannelRemoves ==
    << Message("ChannelRemove", <<Field(1, 0, 1)>>),
       Message("ChannelRemove", <<Field(1, 0, 2)>>) >>

RecvChannelDelta ==
    /\ Idle
    /\ \E i \in DOMAIN ChannelDeltas : Recv(ChannelDeltas[i], "ok")

RecvChannelRemove ==
    /\ Idle
    /\ \E i \in DOMAIN ChannelRemoves : Recv(ChannelRemoves[i], "ok")

NextChannels == ConnectionMade \/ RecvChannelDelta \/ RecvChannelRemove

SpecChannels == Init /\ [][NextChannels]_vars

\* ---------------------------------------------------------- user messages
\* A fourth specification: channels 0 and 1, our own user (session 1) and
\* another user (session 2) whose channel and flags change, and removals;
\* each frame is delivered by one dataReceived call.

UserChannels ==
    << Message("ChannelState", <<Field(1, 0, 0), Field(3, 2, <<114>>)>>),
       Message("ChannelState",
               <<Field(1, 0, 1), Field(2, 0, 0), Field(3, 2, <<98>>)>>) >>

UserDeltas ==
    << Message("UserState",
               <<Field(1, 0, 1), Field(3, 2, <<97>>), Field(5, 0, 0)>>),
       Message("UserState",
               <<Field(1, 0, 2), Field(3, 2, <<98>>), Field(5, 0, 0)>>),
       Message("UserState",
               <<Field(1, 0, 2), Field(2, 0, 1), Field(5, 0, 1),
                 Field(6, 0, 1), Field(7, 0, 1), Field(8, 0, 1),
                 Field(9, 0, 1), Field(10, 0, 1), Field(18, 0, 1),
                 Field(19, 0, 1)>>),
       Message("UserState",
               <<Field(1, 0, 2), Field(2, 0, 1), Field(6, 0, 0),
                 Field(7, 0, 0), Field(8, 0, 0), Field(9, 0, 0),
                 Field(10, 0, 0), Field(18, 0, 0), Field(19, 0, 0)>>),
       Message("UserState", <<Field(1, 0, 2), Field(19, 0, 1)>>),
       Message("UserState",
               <<Field(1, 0, 2), Field(6, 0, 1), Field(9, 0, 1)>>),
       Message("UserState", <<Field(1, 0, 2), Field(2, 0, 1), Field(5, 0, 0)>>),
       Message("UserState",
               <<Field(1, 0, 2), Field(10, 0, 1), Field(8, 0, 1)>>) >>

UserLeaves ==
    << Message("UserRemove", <<Field(1, 0, 2), Field(2, 0, 1)>>),
       Message("UserRemove", <<Field(1, 0, 2), Field(2, 0, 2)>>),
       Message("UserRemove", <<Field(1, 0, 3), Field(2, 0, 1)>>),
       Message("UserRemove", <<Field(1, 0, 1)>>),
       Message("UserRemove", <<Field(1, 0, 3)>>) >>

RecvUserChannel ==
    /\ Idle
    /\ \E i \in DOMAIN UserChannels : Recv(UserChannels[i], "ok")

RecvUserDelta ==
    /\ Idle
    /\ \E i \in DOMAIN UserDeltas : Recv(UserDeltas[i], "ok")

RecvUserLeave ==
    /\ Idle
    /\ \E i \in DOMAIN UserLeaves : Recv(UserLeaves[i], "ok")

NextUsers ==
    ConnectionMade \/ RecvUserChannel \/ RecvUserDelta \/ RecvUserLeave

SpecUsers == Init /\ [][NextUsers]_vars

\* ------------------------------------------------------ self-identification
\* A fifth specification: the configuration names the initial channel by
\* id, by name, by both or not at all; the server describes channels 0 and
\* 1 and announces users, some under the configured username.

JoinConfig(has_channel, id, name) ==
    [username |-> <<97>>, password |-> <<>>, tokens |-> <<>>,
     control_chars |-> <<33>>, has_channel |-> has_channel,
     channel |-> [id |-> id, name |-> name]]

JoinConfigs ==
    { JoinConfig(TRUE, 1, <<>>),
      JoinConfig(TRUE, 3, <<98>>),
      JoinConfig(TRUE, 0, <<98>>),
      JoinConfig(TRUE, None, <<98>>),
      JoinConfig(TRUE, None, <<122>>),
      JoinConfig(TRUE, None, <<>>),
      JoinConfig(FALSE, None, <<>>) }

JoinMsgs ==
    << Message("UserState",
               <<Field(1, 0, 1), Field(3, 2, <<97>>), Field(5, 0, 0)>>),
       Message("UserState",
               <<Field(1, 0, 2), Field(3, 2, <<97>>), Field(5, 0, 0)>>),
       Message("UserState",
               <<Field(1, 0, 2), Field(3, 2, <<98>>), Field(5, 0, 0)>>),
       Message("UserRemove", <<Field(1, 0, 1)>>),
       Message("UserRemove", <<Field(1, 0, 2)>>) >>

InitJoin ==
    /\ config \in JoinConfigs
    /\ received = <<>>
    /\ channels = EmptyDict
    /\ users = EmptyDict
    /\ ourselves = None
    /\ pinging = TRUE
    /\ transport = "none"
    /\ pingScheduled = FALSE
    /\ written = <<>>
    /\ events = <<>>
    /\ log = <<>>
    /\ dispatched = <<>>
    /\ op = "init"
    /\ wire = <<>>
    /\ hist = [sent |-> <<>>, delivered |-> <<>>, dispatched |-> <<>>,
               written |-> <<>>, split |-> FALSE]
    /\ InitOthers

RecvJoinMsg ==
    /\ Idle
    /\ \E i \in DOMAIN JoinMsgs : Recv(JoinMsgs[i], "ok")

NextJoin == ConnectionMade \/ RecvUserChannel \/ RecvJoinMsg

SpecJoin == InitJoin /\ [][NextJoin]_vars

\* ------------------------------------------------------------ every kind
\* A sixth specification: next to channel and user announcements the
\* server sends one frame of any of the 25 kinds, with an empty payload.

RecvKind ==
    /\ Idle
    /\ \E m \in KindMsgs : Recv(m, "ok")

NextKinds == ConnectionMade \/ RecvUserChannel \/ RecvJoinMsg \/ RecvKind

SpecKinds == Init /\ [][NextKinds]_vars

\* ------------------------------------------------------------- commands
\* A seventh specification: the command prefix is "!" or "{NICK}:", and
\* user 2 sends text messages to channel 0: commands with and without
\* arguments, the prefix alone, the prefix and a blank, and plain chat.

TextConfig(control_chars) ==
    [username |-> <<97>>, password |-> <<>>, tokens |-> <<>>,
     control_chars |-> control_chars, has_channel |-> TRUE,
     channel |-> [id |-> 1, name |-> <<>>]]

TextConfigs == {TextConfig(<<33>>), TextConfig(NICK \o <<58>>)}

Texts ==
    << <<33, 104, 101, 108, 112>>,
       <<33, 120, 32, 32, 121, 32, 122>>,
       <<33>>,
       <<33, 32>>,
       <<104, 105>>,
       <<65, 58, 72, 101, 108, 112, 32, 109, 101>>,
       <<97, 58>> >>

TextFrames ==
    [i \in DOMAIN Texts |->
        Message("TextMessage",
                <<Field(1, 0, 2), Field(3, 0, 0), Field(5, 2, Texts[i])>>)]

InitText ==
    /\ config \in TextConfigs
    /\ received = <<>>
    /\ channels = EmptyDict
    /\ users = EmptyDict
    /\ ourselves = None
    /\ pinging = TRUE
    /\ transport = "none"
    /\ pingScheduled = FALSE
    /\ written = <<>>
    /\ events = <<>>
    /\ log = <<>>
    /\ dispatched = <<>>
    /\ op = "init"
    /\ wire = <<>>
    /\ hist = [sent |-> <<>>, delivered |-> <<>>, dispatched |-> <<>>,
               written |-> <<>>, split |-> FALSE]
    /\ InitOthers

\* A text message arrives; the command manager would answer r, and the
\* subscribers of PreCommand cancel the event or not.
RecvText ==
    /\ Idle
    /\ \E i \in DOMAIN TextFrames : \E r \in CmdResults : \E c \in BOOLEAN :
          CommitGraph(dataReceived([Self EXCEPT !.cmd_result = r, !.cancel = c],
                                   EncodeFrame(TextFrames[i])))

NextText == ConnectionMade \/ RecvUserChannel \/ RecvJoinMsg \/ RecvText

SpecText == InitText /\ [][NextText]_vars

\* ------------------------------------------------------------ rejection
\* An eighth specification: after the connection is made the server may
\* reject it at any time, with a reason code and text or without, while
\* channels and users are announced and the keepalive ticks.

Rejects ==
    << Message("Reject", <<Field(1, 0, 1), Field(2, 2, <<120>>)>>),
       Message("Reject", <<Field(1, 0, 3), Field(2, 2, <<110, 111>>)>>),
       Message("Reject", <<>>) >>

RecvReject ==
    /\ Idle
    /\ \E i \in DOMAIN Rejects : Recv(Rejects[i], "ok")

\* The reactor fires the pending ping_handler call.
Tick ==
    /\ pingScheduled
    /\ CommitCall(ping_handler([Self EXCEPT !.pingScheduled = FALSE]),
                  "ping_handler")

NextReject ==
    ConnectionMade \/ RecvUserChannel \/ RecvJoinMsg \/ RecvReject \/ Tick

SpecReject == Init /\ [][NextReject]_vars

\* ------------------------------------------------------------- sending
\* A ninth specification: the server describes channels 0 and 1,
\* announces our own user (session 1) and another one (session 2) and moves
\* our user between the channels, while plugins call msg_channel, msg_user,
\* msg and shutdown; the subscribers of MessageSent may replace the text
\* and may cancel the event.

SendPresence ==
    << Message("UserState",
               <<Field(1, 0, 1), Field(3, 2, <<97>>), Field(5, 0, 0)>>),
       Message("UserState",
               <<Field(1, 0, 2), Field(3, 2, <<98>>), Field(5, 0, 0)>>),
       Message("UserState", <<Field(1, 0, 1), Field(2, 0, 2), Field(5, 0, 1)>>),
       Message("UserState", <<Field(1, 0, 1), Field(2, 0, 1), Field(5, 0, 0)>>) >>

\* "hi" and "a<b"
SendTexts == {<<104, 105>>, <<97, 60, 98>>}

\* The subscribers leave the text alone or replace it with "x&".
Rewrites == {[on |-> FALSE, text |-> <<>>], [on |-> TRUE, text |-> <<120, 38>>]}

\* Channel ids and sessions a plugin may name; 3 is never known.
SendChannels == {0, 1, 3}

SendUsers == {1, 2, 3}

RecvSendPresence ==
    /\ Idle
    /\ \E i \in DOMAIN SendPresence : Recv(SendPresence[i], "ok")

\* A plugin calls msg_channel(text, channel, use_event).
MsgChannel ==
    /\ Idle
    /\ \E text \in SendTexts : \E cid \in SendChannels : \E use_event \in BOOLEAN :
       \E c \in BOOLEAN : \E rw \in Rewrites :
          CommitCall(msg_channel([Self EXCEPT !.cancel = c, !.rewrite = rw],
                                 text, cid, use_event),
                     IF use_event THEN "msg_channel"
                     ELSE "msg_channel(use_event=False)")

\* A plugin calls msg_user(text, user, use_event).
MsgUser ==
    /\ Idle
    /\ \E text \in SendTexts : \E session \in SendUsers : \E use_event \in BOOLEAN :
       \E c \in BOOLEAN : \E rw \in Rewrites :
          CommitCall(msg_user([Self EXCEPT !.cancel = c, !.rewrite = rw],
                              text, session, use_event),
                     IF use_event THEN "msg_user"
                     ELSE "msg_user(use_event=False)")

\* A plugin calls msg(text): target "channel", no target id.
Msg ==
    /\ Idle
    /\ \E text \in SendTexts : CommitCall(msg(Self, text, "channel", None), "msg")

\* The protocol is shut down.
Shutdown ==
    /\ Idle
    /\ CommitCall(shutdown(Self), "shutdown")

NextSend ==
    \/ ConnectionMade
    \/ RecvUserChannel
    \/ RecvSendPresence
    \/ MsgChannel
    \/ MsgUser
    \/ Msg
    \/ Shutdown

SpecSend == Init /\ [][NextSend]_vars

\* ------------------------------------------------------------- targets
\* A tenth specification: plugins call send_msg and send_action with
\* targets of every kind. A target is [kind, value]: an int, a str, a
\* unicode string, a User object (value: its session) or a Channel object
\* (value: its channel id).

\* What get_user and get_channel return when nothing is found.
NoTarget == [kind |-> "None", value |-> None]

UserObject(session) ==
    IF session = None THEN NoTarget ELSE [kind |-> "User", value |-> session]

ChannelObject(id) ==
    IF id = None THEN NoTarget ELSE [kind |-> "Channel", value |-> id]

\* get_user(name_or_session) with a str: the first user whose lowered
\* nickname matches, or None.
get_user_by_name(p, name) ==
    IF \E s \in DOMAIN p.users : Lower(p.users[s].nickname) = Lower(name)
    THEN CHOOSE s \in DOMAIN p.users :
            /\ Lower(p.users[s].nickname) = Lower(name)
            /\ \A t \in DOMAIN p.users :
                  Lower(p.users[t].nickname) = Lower(name) => s <= t
    ELSE None

\* Lines 794-806: get_user(name_or_session); what is not a str is looked
\* up as a key of the user index.
get_user(p, target) ==
    IF target.kind = "str" THEN UserObject(get_user_by_name(p, target.value))
    ELSE IF target.kind = "int" /\ target.value \in DOMAIN p.users
    THEN UserObject(target.value)
    ELSE NoTarget

\* Lines 780-792: get_channel(name_or_id)
get_channel(p, target) ==
    IF target.kind \in {"str", "unicode"}
    THEN ChannelObject(get_channel_by_name(p, target.value))
    ELSE IF target.kind = "int"
    THEN ChannelObject(get_channel_by_id(p, target.value))
    ELSE NoTarget

\* Lines 676-684 with every int and str looked up as a channel.
ResolveChannel(p, target, target_type) ==
    IF target.kind \notin {"int", "str"} THEN target
    ELSE get_channel(p, target)

\* Lines 676-684: an int or a str is looked up, anything else is kept.
Resolve(p, target, target_type) ==
    IF target.kind \notin {"int", "str"} THEN target
    ELSE IF target_type = "user" THEN get_user(p, target)
    ELSE get_channel(p, target)

\* The call returns value unless an exception is on its way.
Return(p, value) ==
    [p EXCEPT !.result = IF p.exc THEN "Exception" ELSE value]

\* Lines 685-691
SendTo(p, target, message, use_event) ==
    IF target.kind = "User"
    THEN Return(msg_user(p, message, target.value, use_event), "True")
    ELSE IF target.kind = "Channel"
    THEN Return(msg_channel(p, message, target.value, use_event), "True")
    ELSE Return(p, "False")

\* Lines 675-691
send_msg(p, target, message, target_type, use_event) ==
    SendTo(p, Resolve(p, target, target_type), message, use_event)

\* u"*%s*" % (message)
Starred(message) == <<42>> \o message \o <<42>>

\* Lines 693-711
send_action(p, target, message, target_type, use_event) ==
    SendTo(p, Resolve(p, target, target_type), Starred(message), use_event)

\* The ids 1 and 3; "B", "a" and "z"; u"b"; the User objects of the
\* sessions 2 and 3 and the Channel object of the channel 0. No user and
\* no channel is ever known as 3 or as "z".
SendTargets ==
    << [kind |-> "int", value |-> 1], [kind |-> "int", value |-> 3],
       [kind |-> "str", value |-> <<66>>], [kind |-> "str", value |-> <<97>>],
       [kind |-> "str", value |-> <<122>>],
       [kind |-> "unicode", value |-> <<98>>],
       [kind |-> "User", value |-> 2], [kind |-> "User", value |-> 3],
       [kind |-> "Channel", value |-> 0] >>

TargetTypes == {"None", "user"}

\* A call that returns a value.
CommitReturn(p, name, a) ==
    /\ Store(p)
    /\ op' = name
    /\ args' = a
    /\ result' = p.result
    /\ UNCHANGED <<config, wire, hist, peer, callbacks, invoked, main_config,
                   all_plugins, loaded_plugins, threads>>

SendMsg ==
    /\ Idle
    /\ \E i \in DOMAIN SendTargets : \E text \in SendTexts :
       \E target_type \in TargetTypes : \E use_event \in BOOLEAN :
          CommitReturn(send_msg(Self, SendTargets[i], text, target_type,
                                use_event),
                       "send_msg",
                       [target |-> SendTargets[i], message |-> text,
                        target_type |-> target_type])

SendAction ==
    /\ Idle
    /\ \E i \in DOMAIN SendTargets : \E text \in SendTexts :
       \E target_type \in TargetTypes : \E use_event \in BOOLEAN :
          CommitReturn(send_action(Self, SendTargets[i], text, target_type,
                                   use_event),
                       "send_action",
                       [target |-> SendTargets[i], message |-> text,
                        target_type |-> target_type])

NextTargets ==
    \/ ConnectionMade
    \/ RecvUserChannel
    \/ RecvSendPresence
    \/ SendMsg
    \/ SendAction

SpecTargets == Init /\ [][NextTargets]_vars

\* ----------------------------------------------------------- two instances
\* An eleventh specification: two Protocol instances, each with its own
\* connection. Protocol.channels and Protocol.users are dictionaries
\* created in the class body (lines 86-87) and no method assigns
\* self.channels or self.users, so self.channels and self.users are the
\* same two dictionaries on every instance: the variables channels and
\* users. received is assigned by __init__ (line 102) and pinging and
\* ourselves are assigned on the instance (lines 243, 444): the first
\* instance's are the variables of those names, the second one's are in
\* peer.

\* self, when the second instance runs.
PeerSelf ==
    [Self EXCEPT !.received = peer.received, !.ourselves = peer.ourselves,
                 !.pinging = peer.pinging, !.transport = peer.transport,
                 !.pingScheduled = peer.pingScheduled]

\* The outcome q of an operation of the second instance becomes the state.
StorePeer(q, name) ==
    /\ channels' = q.channels
    /\ users' = q.users
    /\ peer' = [received |-> q.received, ourselves |-> q.ourselves,
                pinging |-> q.pinging, transport |-> q.transport,
                pingScheduled |-> q.pingScheduled]
    /\ written' = q.written
    /\ events' = q.events
    /\ log' = q.log
    /\ dispatched' = q.dispatched
    /\ op' = name
    /\ UNCHANGED <<config, received, ourselves, pinging, transport,
                   pingScheduled, wire, hist, callbacks, invoked, system>>

\* What either server may send: channels 0 and 1, the users "a" (the
\* configured username) and "b", and a rejection.
InstanceMsgs ==
    << Message("ChannelState", <<Field(1, 0, 0), Field(3, 2, <<114>>)>>),
       Message("ChannelState",
               <<Field(1, 0, 1), Field(2, 0, 0), Field(3, 2, <<98>>)>>),
       Message("UserState",
               <<Field(1, 0, 1), Field(3, 2, <<97>>), Field(5, 0, 0)>>),
       Message("UserState",
               <<Field(1, 0, 2), Field(3, 2, <<98>>), Field(5, 0, 1)>>),
       Message("Reject", <<Field(1, 0, 1)>>) >>

\* The first three bytes of a Ping frame, and the other three.
HalfFrames == << <<0, 3, 0>>, <<0, 0, 0>> >>

RecvInstanceMsg ==
    /\ Idle
    /\ \E i \in DOMAIN InstanceMsgs : Recv(InstanceMsgs[i], "ok")

PeerConnectionMade ==
    /\ peer.transport = "none"
    /\ StorePeer(connectionMade([PeerSelf EXCEPT !.transport = "open"]),
                 "peer.connectionMade")

PeerRecv ==
    /\ peer.transport \in {"open", "closed"}
    /\ peer.received = <<>>
    /\ \E i \in DOMAIN InstanceMsgs :
          StorePeer(dataReceived(PeerSelf, EncodeFrame(InstanceMsgs[i])),
                    "peer.dataReceived")

\* The second instance receives half a frame: the first half when its
\* buffer is empty, the second half when it holds the first.
PeerRecvHalf ==
    /\ peer.transport \in {"open", "closed"}
    /\ peer.received \in {<<>>, HalfFrames[1]}
    /\ StorePeer(dataReceived(PeerSelf,
                              IF peer.received = <<>> THEN HalfFrames[1]
                              ELSE HalfFrames[2]),
                 "peer.dataReceived")

NextInstances ==
    \/ ConnectionMade
    \/ RecvInstanceMsg
    \/ PeerConnectionMade
    \/ PeerRecv
    \/ PeerRecvHalf

SpecInstances == Init /\ [][NextInstances]_vars

\* ----------------------------------------------------------- event manager
\* A twelfth specification: the EventManager. The plugins "a", "ab" and
\* "b" add and remove handlers for the callbacks "X" and "Y", with the
\* priorities 0 and 1, and events are run through the handlers. A handler
\* is the record add_callback stores for it: the plugin's name, the
\* priority and whether it takes cancelled events.

\* Python's order on str, for byte strings: a < b.
NameLess(a, b) ==
    \E k \in 0..Len(a) :
       /\ k <= Len(b)
       /\ Take(a, k) = Take(b, k)
       /\ \/ k = Len(a) /\ k < Len(b)
          \/ k < Len(a) /\ k < Len(b) /\ a[k + 1] < b[k + 1]

\* itemgetter("priority", "name"): x's key is below y's.
KeyLess(x, y) ==
    \/ x.priority < y.priority
    \/ x.priority = y.priority /\ NameLess(x.name, y.name)

\* One step of sorted(lst, key=..., reverse=True): x goes behind the
\* elements whose key is not below its own (the sort is stable).
InsertSorted(srt, x) ==
    LET n == Cardinality({i \in DOMAIN srt : ~KeyLess(srt[i], x)})
    IN  Take(srt, n) \o <<x>> \o Drop(srt, n)

RECURSIVE SortInto(_, _)
SortInto(srt, lst) ==
    IF lst = <<>> THEN srt
    ELSE SortInto(InsertSorted(srt, Head(lst)), Tail(lst))

\* Lines 69-70: _sort(lst)
sort(lst) == SortInto(<<>>, lst)

\* Lines 162-172 and 174-193
has_callback(cbs, callback) == callback \in DOMAIN cbs

has_plugin_callback(cbs, callback, plugin) ==
    /\ has_callback(cbs, callback)
    /\ \E i \in DOMAIN cbs[callback] : cbs[callback][i].name = plugin

\* The handlers of a list that are not the plugin's (the "done" lists of
\* lines 206-209 and 234-237).
Without(lst, plugin) == SelectSeq(lst, LAMBDA cb : cb.name # plugin)

\* add_callback without the check of lines 108-111.
add_callbackAgain(cbs, callback, plugin, priority, cancelled) ==
    [callbacks |->
         SetItem(cbs, callback,
                 sort(Append(IF has_callback(cbs, callback)
                             THEN cbs[callback] ELSE <<>>,
                             [name |-> plugin, priority |-> priority,
                              cancelled |-> cancelled]))),
     raised |-> FALSE]

\* Lines 72-127: add_callback(callback, plugin, function, priority, fltr,
\* cancelled): [callbacks, raised]; raised is the ValueError of line 109.
add_callback(cbs, callback, plugin, priority, cancelled) ==
    IF has_plugin_callback(cbs, callback, plugin)
    THEN [callbacks |-> cbs, raised |-> TRUE]
    ELSE [callbacks |->
              SetItem(cbs, callback,
                      sort(Append(IF has_callback(cbs, callback)
                                  THEN cbs[callback] ELSE <<>>,
                                  [name |-> plugin, priority |-> priority,
                                   cancelled |-> cancelled]))),
          raised |-> FALSE]

\* Lines 195-213
remove_callback(cbs, callback, plugin) ==
    IF ~has_plugin_callback(cbs, callback, plugin) THEN cbs
    ELSE IF Len(Without(cbs[callback], plugin)) > 0
    THEN SetItem(cbs, callback, sort(Without(cbs[callback], plugin)))
    ELSE DelItem(cbs, callback)

\* Lines 215-223
remove_callbacks(cbs, callback) ==
    IF has_callback(cbs, callback) THEN DelItem(cbs, callback) ELSE cbs

\* Lines 225-241
remove_callbacks_for_plugin(cbs, plugin) ==
    [key \in {k \in DOMAIN cbs : Len(Without(cbs[k], plugin)) > 0} |->
        sort(Without(cbs[key], plugin))]

\* Lines 255-294: the handlers run_callback(callback, event) calls, in the
\* order of the calls, for handlers without a filter that leave the event
\* as it is: all of them, or for a cancelled event those that take
\* cancelled events.
Called(cbs, callback, event_cancelled) ==
    IF ~has_callback(cbs, callback) THEN <<>>
    ELSE SelectSeq(cbs[callback],
                   LAMBDA cb : ~event_cancelled \/ cb.cancelled)

\* "a", "ab", "b"
PluginNames == {<<97>>, <<97, 98>>, <<98>>}

CallbackNames == {"X", "Y"}

Priorities == {0, 1}

\* What the event manager's operations leave alone.
protocol ==
    << config, received, channels, users, ourselves, pinging, transport,
       pingScheduled, written, events, dispatched, wire, hist, peer >>

\* The registry after an operation; raised tells whether it raised, and
\* called which handlers it called.
CommitRegistry(cbs, raised, called) ==
    /\ callbacks' = cbs
    /\ invoked' = called
    /\ log' = IF raised THEN <<"ValueError">> ELSE <<>>
    /\ UNCHANGED <<protocol, system>>

\* The number of handlers in the registry.
RECURSIVE Registered(_)
Registered(cbs) ==
    IF DOMAIN cbs = {} THEN 0
    ELSE LET k == CHOOSE k \in DOMAIN cbs : TRUE
         IN  Len(cbs[k]) + Registered(DelItem(cbs, k))

AddCallback ==
    /\ op' = "add_callback"
    /\ Registered(callbacks) < MaxHandlers
    /\ \E callback \in CallbackNames : \E plugin \in PluginNames :
       \E priority \in Priorities : \E cancelled \in BOOLEAN :
          CommitRegistry(
              add_callback(callbacks, callback, plugin, priority,
                           cancelled).callbacks,
              add_callback(callbacks, callback, plugin, priority,
                           cancelled).raised,
              <<>>)

RemoveCallback ==
    /\ op' = "remove_callback"
    /\ \E callback \in CallbackNames : \E plugin \in PluginNames :
          CommitRegistry(remove_callback(callbacks, callback, plugin),
                         FALSE, <<>>)

RemoveCallbacks ==
    /\ op' = "remove_callbacks"
    /\ \E callback \in CallbackNames :
          CommitRegistry(remove_callbacks(callbacks, callback), FALSE, <<>>)

RemoveCallbacksForPlugin ==
    /\ op' = "remove_callbacks_for_plugin"
    /\ \E plugin \in PluginNames :
          CommitRegistry(remove_callbacks_for_plugin(callbacks, plugin),
                         FALSE, <<>>)

\* run_callback(callback, event) with an event that is cancelled or not.
RunCallback ==
    /\ op' = "run_callback"
    /\ \E callback \in CallbackNames : \E event_cancelled \in BOOLEAN :
          CommitRegistry(callbacks, FALSE,
                         Called(callbacks, callback, event_cancelled))

NextEvents ==
    \/ AddCallback
    \/ RemoveCallback
    \/ RemoveCallbacks
    \/ RemoveCallbacksForPlugin
    \/ RunCallback

SpecEvents == Init /\ [][NextEvents]_vars

\* ------------------------------------------------------------ running events
\* A thirteenth specification: run_callback with handlers that act on the
\* event. The plugins "a", "ab" and "b" add handlers for the callback "X";
\* in a run, does tells what the function of each plugin's handler does
\* with the event ("return", "cancel" it, or "raise" an exception) and
\* rejecting holds the plugins whose filter returns false for it. A run is
\* the record [cancelled, invoked, log]: the event's flag, the handlers
\* called so far and the warnings logged.

\* Lines 264-270: go(), the call of the handler's function.
Go(r, cb, does) ==
    IF does[cb.name] = "cancel"
    THEN [r EXCEPT !.invoked = Append(@, cb), !.cancelled = TRUE]
    ELSE IF does[cb.name] = "raise"
    THEN [r EXCEPT !.invoked = Append(@, cb),
                   !.log = Append(@, "Error running callback")]
    ELSE [r EXCEPT !.invoked = Append(@, cb)]

\* The body of the loop without the test of lines 286-292.
ConsiderAll(r, cb, does, rejecting) ==
    IF cb.name \in rejecting THEN r ELSE Go(r, cb, does)

\* Lines 271-298: the body of the loop for the handler cb.
Consider(r, cb, does, rejecting) ==
    IF cb.name \in rejecting THEN r
    ELSE IF r.cancelled /\ ~cb.cancelled THEN r
    ELSE Go(r, cb, does)

RECURSIVE Handle(_, _, _, _)
Handle(r, lst, does, rejecting) ==
    IF lst = <<>> THEN r
    ELSE Handle(Consider(r, Head(lst), does, rejecting), Tail(lst), does,
                rejecting)

\* Lines 243-299: run_callback(callback, event) for an event whose flag is
\* event_cancelled.
RunHandlers(cbs, callback, event_cancelled, does, rejecting) ==
    Handle([cancelled |-> event_cancelled, invoked |-> <<>>, log |-> <<>>],
           IF has_callback(cbs, callback) THEN cbs[callback] ELSE <<>>,
           does, rejecting)

\* The event run_callback returns.
Event(cancelled) == IF cancelled THEN "event (cancelled)" ELSE "event"

Behaviours == [PluginNames -> {"return", "cancel", "raise"}]

\* No handler touches the event.
Returning == [name \in PluginNames |-> "return"]

Rejecting == {{}} \cup {{name} : name \in PluginNames}

CommitRun(r, a) ==
    /\ invoked' = r.invoked
    /\ log' = r.log
    /\ result' = Event(r.cancelled)
    /\ args' = a
    /\ UNCHANGED <<protocol, callbacks, main_config, all_plugins,
                   loaded_plugins, threads>>

\* A threaded run_callback is under way: its loop has handlers left or
\* threads it started have not run yet.
Running == threads.i < Len(threads.cbs) \/ threads.pending > 0

\* A plugin adds its handler for the callback "X", with the priority 0.
AddHandler ==
    /\ op' = "add_callback"
    /\ ~Running
    /\ \E plugin \in PluginNames : \E cancelled \in BOOLEAN :
          /\ ~add_callback(callbacks, "X", plugin, 0, cancelled).raised
          /\ callbacks' = add_callback(callbacks, "X", plugin, 0,
                                       cancelled).callbacks
          /\ invoked' = <<>>
          /\ log' = <<>>
          /\ args' = [callback |-> "X", name |-> plugin]
          /\ result' = NoResult
          /\ UNCHANGED <<protocol, main_config, all_plugins, loaded_plugins,
                         threads>>

\* run_callback(callback, event); nothing is registered for "Y".
RunEvent ==
    /\ op' = "run_callback"
    /\ \E callback \in CallbackNames : \E event_cancelled \in BOOLEAN :
       \E does \in Behaviours : \E rejecting \in Rejecting :
          /\ callback = "Y" => rejecting = {} /\ does = Returning
          /\ CommitRun(RunHandlers(callbacks, callback, event_cancelled,
                                   does, rejecting),
                       [callback |-> callback,
                        cancelled |-> event_cancelled,
                        does |-> does, rejecting |-> rejecting])

NextRun ==
    \/ AddHandler
    \/ RunEvent

SpecRun == Init /\ [][NextRun]_vars

\* ------------------------------------------------------------ threaded runs
\* A fourteenth specification: run_callback(callback, event,
\* threaded=True). The loop of lines 259-298 and the threads it starts
\* take their steps in any order. threads is the record [cbs, i, pending]:
\* the list the loop goes through, the position of the loop variable cb in
\* it (cb is cbs[i]) and the number of threads started and not yet run.
\* The functions go of lines 261-265 are closures of run_callback's frame,
\* so each of them reads the loop variable cb when its thread runs it.

\* The handler at position i of the list takes the event.
Eligible(cbs, i, event_cancelled) == ~event_cancelled \/ cbs[i].cancelled

\* run_callback(callback, event, threaded=True) is called and finds the
\* list of the callback (lines 255-259).
RunThreaded ==
    /\ op' = "run_callback(threaded=True)"
    /\ ~Running
    /\ \E callback \in CallbackNames : \E event_cancelled \in BOOLEAN :
          /\ threads' = [cbs |-> IF has_callback(callbacks, callback)
                                 THEN callbacks[callback] ELSE <<>>,
                         i |-> 0, pending |-> 0]
          /\ args' = [callback |-> callback, cancelled |-> event_cancelled]
    /\ invoked' = <<>>
    /\ log' = <<>>
    /\ result' = NoResult
    /\ UNCHANGED <<protocol, callbacks, main_config, all_plugins,
                   loaded_plugins>>

\* One turn of the loop: cb is bound to the next handler and, when the
\* handler takes the event, go() starts a thread (decorators.py, lines
\* 87-90); after the last handler run_callback returns the event.
Dispatch ==
    /\ op' = "run_callback(threaded=True): for cb"
    /\ threads.i < Len(threads.cbs)
    /\ threads' = [threads EXCEPT
                     !.i = @ + 1,
                     !.pending =
                        IF Eligible(threads.cbs, threads.i + 1, args.cancelled)
                        THEN @ + 1 ELSE @]
    /\ result' = IF threads.i + 1 = Len(threads.cbs)
                 THEN Event(args.cancelled) ELSE NoResult
    /\ UNCHANGED <<protocol, callbacks, invoked, log, main_config,
                   all_plugins, loaded_plugins, args>>

\* A started thread runs go(): it calls the function of the handler cb
\* is bound to now (line 264).
ThreadGo ==
    /\ op' = "run_callback(threaded=True): go"
    /\ threads.pending > 0
    /\ threads' = [threads EXCEPT !.pending = @ - 1]
    /\ invoked' = Append(invoked, threads.cbs[threads.i])
    /\ UNCHANGED <<protocol, callbacks, log, main_config, all_plugins,
                   loaded_plugins, args, result>>

NextThreads ==
    \/ AddHandler
    \/ RunThreaded
    \/ Dispatch
    \/ ThreadGo

SpecThreads == Init /\ [][NextThreads]_vars

\* ---------------------------------------------------------- plugin manager
\* A fifteenth specification: the Manager's plugins. The collected plugins
\* are "a", "ab", "b" and "c" (or some of them) with their dependencies;
\* "m" is the name of a plugin that is never collected. A manager is the
\* record [all, loaded, callbacks, failing, result, log]: failing holds the
\* plugins whose activation or setup raises, result what the call returns
\* or the exception it raises.

PLUGIN_ALREADY_LOADED == "PLUGIN_ALREADY_LOADED"
PLUGIN_DEPENDENCY_MISSING == "PLUGIN_DEPENDENCY_MISSING"
PLUGIN_LOAD_ERROR == "PLUGIN_LOAD_ERROR"
PLUGIN_LOADED == "PLUGIN_LOADED"
PLUGIN_NOT_EXISTS == "PLUGIN_NOT_EXISTS"
PLUGIN_UNLOADED == "PLUGIN_UNLOADED"

\* The calls that end with an exception.
RuntimeError == "RuntimeError"
UnboundLocalError == "UnboundLocalError"

Returns(m, value) == [m EXCEPT !.result = value]

\* Lines 404-428: unload_plugin(name)
unload_plugin(m, name) ==
    IF name \in m.loaded
    THEN [m EXCEPT !.callbacks = remove_callbacks_for_plugin(@, name),
                   !.loaded = @ \ {name},
                   !.result = PLUGIN_UNLOADED]
    ELSE Returns(m, PLUGIN_NOT_EXISTS)

\* Lines 290-311: activation and setup, which raise for a failing plugin.
Activate(m, name) ==
    IF name \in m.failing THEN Returns(m, PLUGIN_LOAD_ERROR)
    ELSE [m EXCEPT !.loaded = @ \cup {name}, !.result = PLUGIN_LOADED]

\* Lines 273-279: some dependency is not a collected plugin.
DependencyMissing(m, depends) ==
    \E i \in DOMAIN depends : depends[i] \notin DOMAIN m.all

RECURSIVE load_plugin(_, _, _, _)
RECURSIVE LoadDependencies(_, _, _, _)
RECURSIVE AfterDependency(_, _, _, _)

\* Lines 282-288: the dependency returned r.result; go on with the next
\* one when it is loaded, return the result or pass the exception on
\* when it is not.
AfterDependency(r, name, rest, depth) ==
    IF r.result \in {PLUGIN_LOADED, PLUGIN_ALREADY_LOADED}
    THEN LoadDependencies(r, name, rest, depth)
    ELSE r

\* Lines 280-288, then 290-311: load the dependencies in their order,
\* then the plugin itself.
LoadDependencies(m, name, depends, depth) ==
    IF depends = <<>> THEN Activate(m, name)
    ELSE AfterDependency(load_plugin(m, Head(depends), FALSE, depth + 1),
                         name, Tail(depends), depth)

\* load_plugin without the check of lines 273-279.
LoadCollectedUnchecked(m, name, depth) ==
    LoadDependencies(m, name, m.all[name], depth)

\* Lines 268-311: the plugin is collected and not loaded.
LoadCollected(m, name, depth) ==
    IF DependencyMissing(m, m.all[name])
    THEN Returns(m, PLUGIN_DEPENDENCY_MISSING)
    ELSE LoadDependencies(m, name, m.all[name], depth)

\* Lines 262-264: go on when the plugin was unloaded.
AfterUnload(u, name, depth) ==
    IF u.result # PLUGIN_UNLOADED THEN u ELSE LoadCollected(u, name, depth)

\* Lines 241-312: load_plugin(name, unload); depth is the number of
\* load_plugin calls on the stack.
load_plugin(m, name, unload, depth) ==
    IF depth > MaxDepth THEN Returns(m, RuntimeError)
    ELSE IF name \notin DOMAIN m.all THEN Returns(m, PLUGIN_NOT_EXISTS)
    ELSE IF name \notin m.loaded THEN LoadCollected(m, name, depth)
    ELSE IF unload THEN AfterUnload(unload_plugin(m, name), name, depth)
    ELSE Returns(m, PLUGIN_ALREADY_LOADED)

\* "c" and "m"
Plugins == PluginNames \cup {<<99>>}

Uncollected == <<109>>

\* The collected plugins and their dependencies: a chain b -> ab -> a; a
\* loop a -> b -> a next to ab -> c; a plugin that depends on itself; a
\* dependency that is not collected, directly and behind another plugin.
Collections ==
    << (<<97>> :> <<>>) @@ (<<97, 98>> :> << <<97>> >>)
         @@ (<<98>> :> << <<97, 98>>, <<97>> >>) @@ (<<99>> :> <<>>),
       (<<97>> :> << <<98>> >>) @@ (<<98>> :> << <<97>> >>)
         @@ (<<97, 98>> :> << <<99>> >>) @@ (<<99>> :> <<>>),
       (<<97>> :> << <<97>> >>) @@ (<<98>> :> << <<99>>, <<97>> >>)
         @@ (<<99>> :> <<>>),
       (<<97>> :> << Uncollected >>) @@ (<<97, 98>> :> <<>>)
         @@ (<<98>> :> << <<97, 98>>, <<97>> >>)
         @@ (<<99>> :> << <<97, 98>>, Uncollected >>) >>

\* The plugins whose activation or setup raises during a call: none, or
\* one of them.
Failing == {{}} \cup {{name} : name \in Plugins}

\* The manager the operations start from.
TheManager(failing) ==
    [all |-> all_plugins, loaded |-> loaded_plugins, callbacks |-> callbacks,
     failing |-> failing, result |-> NoResult, log |-> <<>>]

\* The local variable "result" of load_plugins before it is assigned.
Unbound == "unbound"

\* Lines 186-197 and 225-235: the warning for a result other than
\* PLUGIN_LOADED; reading the local variable raises when nothing was
\* assigned to it.
WarningFor(value) ==
    CASE value = PLUGIN_LOAD_ERROR -> "Error detected while loading plugin."
      [] value = PLUGIN_ALREADY_LOADED -> "Plugin already loaded."
      [] value = PLUGIN_NOT_EXISTS -> "Plugin doesn't exist."
      [] OTHER -> "Plugin dependency is missing."

Warned(l, name) ==
    IF l.raised # NoResult THEN l
    ELSE IF l.result = Unbound THEN [l EXCEPT !.raised = UnboundLocalError]
    ELSE IF l.result = PLUGIN_LOADED THEN l
    ELSE [l EXCEPT !.m.log =
              Append(@, [line |-> WarningFor(l.result), name |-> name])]

\* result = self.load_plugin(name)
Assigned(l, r) == [l EXCEPT !.m = r, !.result = r.result]

\* The messages of Python's RuntimeError for a recursion that is too deep:
\* the two of lines 210-216 and one of the others.
RecursionMessages ==
    { "maximum recursion depth exceeded while calling a Python object",
      "maximum recursion depth exceeded",
      "maximum recursion depth exceeded in cmp" }

LoopDetected == "Dependency loop detected while loading"

\* Lines 206-224: the call of load_plugin in the try statement.
Tried(l, r, name, message) ==
    IF r.result # RuntimeError THEN Assigned(l, r)
    ELSE IF message # "maximum recursion depth exceeded in cmp"
    THEN [l EXCEPT !.m = [r EXCEPT !.log =
                             Append(@, [line |-> LoopDetected,
                                        name |-> name])]]
    ELSE [l EXCEPT !.m = r, !.raised = RuntimeError]

RECURSIVE LoadFree(_, _)
RECURSIVE LoadDependent(_, _, _)

\* Lines 179-197: the configured plugins without dependencies.
LoadFree(l, todo) ==
    IF todo = <<>> THEN l
    ELSE IF Head(todo) \notin main_config.plugins
    THEN LoadFree(l, Tail(todo))
    ELSE LoadFree(Warned(Assigned(l, load_plugin(l.m, Head(todo), FALSE, 1)),
                         Head(todo)),
                  Tail(todo))

\* Lines 201-235: the configured plugins with dependencies.
LoadDependent(l, names, message) ==
    IF names = <<>> \/ l.raised # NoResult THEN l
    ELSE IF Head(names) \notin main_config.plugins
    THEN LoadDependent(l, Tail(names), message)
    ELSE LoadDependent(
             Warned(Tried(l, load_plugin(l.m, Head(names), FALSE, 1),
                          Head(names), message),
                    Head(names)),
             Tail(names), message)

\* load_plugins returns None or ends with the exception raised in it.
Finished(l) == [l.m EXCEPT !.result = l.raised]

\* Lines 155-239: load_plugins(); order is the order in which the plugin
\* manager lists the plugins and the dictionary plugins_with_dependencies
\* yields them.
load_plugins(m, order, message) ==
    IF main_config.plugins = {} THEN m
    ELSE Finished(
             LoadDependent(
                 LoadFree([m |-> m, result |-> Unbound, raised |-> NoResult],
                          SelectSeq(order, LAMBDA n : m.all[n] = <<>>)),
                 SelectSeq(order, LAMBDA n : m.all[n] # <<>>),
                 message))

\* The orders of the elements of a set.
RECURSIVE Orders(_)
Orders(S) ==
    IF S = {} THEN { <<>> }
    ELSE UNION { { <<x>> \o o : o \in Orders(S \ {x}) } : x \in S }

\* What the plugin manager's operations leave alone.
CommitManager(m, a) ==
    /\ args' = a
    /\ loaded_plugins' = m.loaded
    /\ callbacks' = m.callbacks
    /\ result' = m.result
    /\ log' = m.log
    /\ UNCHANGED <<protocol, main_config, all_plugins, invoked, threads>>

InitPlugins ==
    /\ config = CHOOSE c \in Configs : TRUE
    /\ received = <<>>
    /\ channels = EmptyDict
    /\ users = EmptyDict
    /\ ourselves = None
    /\ pinging = TRUE
    /\ transport = "none"
    /\ pingScheduled = FALSE
    /\ written = <<>>
    /\ events = <<>>
    /\ log = <<>>
    /\ dispatched = <<>>
    /\ op = "init"
    /\ wire = <<>>
    /\ hist = [sent |-> <<>>, delivered |-> <<>>, dispatched |-> <<>>,
               written |-> <<>>, split |-> FALSE]
    /\ peer = NewInstance
    /\ callbacks = EmptyDict
    /\ invoked = <<>>
    /\ main_config \in [plugins : SUBSET Plugins]
    /\ \E i \in DOMAIN Collections : all_plugins = Collections[i]
    /\ loaded_plugins = {}
    /\ args = NoArgs
    /\ result = NoResult
    /\ threads = NoThreads

\* Manager.__init__ (lines 84-85): collect_plugins(), then load_plugins().
LoadPlugins ==
    /\ op = "init"
    /\ op' = "load_plugins"
    /\ \E order \in Orders(DOMAIN all_plugins) :
       \E failing \in Failing : \E message \in RecursionMessages :
          CommitManager(load_plugins(TheManager(failing), order, message),
                        [name |-> <<>>, failing |-> failing])

LoadPlugin ==
    /\ op' \in {"load_plugin", "load_plugin(unload=True)"}
    /\ \E name \in Plugins \cup {Uncollected} : \E failing \in Failing :
          CommitManager(load_plugin(TheManager(failing), name,
                                    op' = "load_plugin(unload=True)", 1),
                        [name |-> name, failing |-> failing])

UnloadPlugin ==
    /\ op' = "unload_plugin"
    /\ \E name \in Plugins :
          CommitManager(unload_plugin(TheManager({}), name),
                        [name |-> name])

NextPlugins ==
    \/ LoadPlugins
    \/ LoadPlugin
    \/ UnloadPlugin

SpecPlugins == InitPlugins /\ [][NextPlugins]_vars

\* --------------------------------------------------------------- reference
\* What the stream sent so far must have produced, from the frame boundaries
\* the sender knows.

RECURSIVE BytesOf(_)
BytesOf(frames) ==
    IF frames = <<>> THEN <<>> ELSE Head(frames).data \o BytesOf(Tail(frames))

\* The length of the first k frames sent.
SentLen(k) == Len(BytesOf(Take(hist.sent, k)))

RECURSIVE LeadingOkOf(_)
LeadingOkOf(frames) ==
    IF frames = <<>> \/ Head(frames).class # "ok" THEN 0
    ELSE 1 + LeadingOkOf(Tail(frames))

\* The number of well-formed frames at the head of the stream, and how many
\* of them have been delivered completely.
LeadingOk == LeadingOkOf(hist.sent)

DoneOk == Cardinality({k \in 1..LeadingOk : SentLen(k) <= Len(hist.delivered)})

\* The wire tags as the specification lists them.
ExpectedTag ==
    [Version |-> 0, UDPTunnel |-> 1, Authenticate |-> 2, Ping |-> 3,
     Reject |-> 4, ServerSync |-> 5, ChannelRemove |-> 6, ChannelState |-> 7,
     UserRemove |-> 8, UserState |-> 9, BanList |-> 10, TextMessage |-> 11,
     PermissionDenied |-> 12, ACL |-> 13, QueryUsers |-> 14,
     CryptSetup |-> 15, ContextActionModify |-> 16, ContextAction |-> 17,
     UserList |-> 18, VoiceTarget |-> 19, PermissionQuery |-> 20,
     CodecVersion |-> 21, UserStats |-> 22, RequestBlob |-> 23,
     ServerConfig |-> 24]

HdrTag(b) == b[1] * 256 + b[2]

HdrLen(b) == ((b[3] * 256 + b[4]) * 256 + b[5]) * 256 + b[6]

\* The first frame that is not well-formed is of class c, and the first n
\* bytes of it have been delivered.
FirstBad(c, n) ==
    /\ LeadingOk < Len(hist.sent)
    /\ hist.sent[LeadingOk + 1].class = c
    /\ Len(hist.delivered) >= SentLen(LeadingOk) + n

\* The protocol as connectionMade leaves it.
Connected ==
    [Self EXCEPT !.received = <<>>, !.channels = EmptyDict,
                 !.users = EmptyDict, !.ourselves = None, !.pinging = TRUE,
                 !.transport = "open", !.pingScheduled = TRUE]

\* ------------------------------------------------------------------ claims

\* C1: frame re-assembly. However the bytes delivered so far were cut into
\* chunks, the messages dispatched are those dispatched when the same bytes
\* arrive in a single dataReceived call.
C1_Reassembly ==
    hist.dispatched = dataReceived(Connected, hist.delivered).dispatched

\* Two frames were dispatched although a delivery ended inside a frame.
C1_Witness ==
    /\ hist.split
    /\ Len(hist.dispatched) = 2
    /\ LeadingOk = 2
    /\ received = <<>>
    /\ wire = <<>>

\* C2: graph consistency. After any sequence of channel, user and removal
\* messages, failed ones included, every user in the index is a member of
\* its current channel, and every member of a channel is a user in the
\* index whose current channel is that channel.
C2_GraphConsistency ==
    /\ \A s \in DOMAIN users :
          /\ users[s].channel \in DOMAIN channels
          /\ s \in channels[users[s].channel].users
    /\ \A c \in DOMAIN channels :
          \A s \in channels[c].users :
             /\ s \in DOMAIN users
             /\ users[s].channel = c

\* User 2, first seen in channel 1, was moved to channel 0, and the last
\* message failed part-way after changing one of its flags.
C2_Witness ==
    /\ op = "dataReceived"
    /\ log # <<>>
    /\ DOMAIN users = {1, 2}
    /\ users[2].channel = 0
    /\ users[2].suppress
    /\ channels[0].users = {1, 2}
    /\ channels[1].users = {}

\* C3: tag bounds. Once the header of a frame with a tag outside the table
\* is at the front of the buffer the transport is closed and neither that
\* call nor a later one dispatches anything more; the frames before it, of
\* any tag in 0..24, are dispatched once complete.
C3_TagBounds ==
    /\ [i \in 1..Len(hist.dispatched) |-> hist.dispatched[i].msg_type]
         = [i \in 1..DoneOk |-> ExpectedTag[hist.sent[i].kind]]
    /\ FirstBad("badtag", PREFIX_LENGTH) =>
          /\ transport = "closed"
          /\ Len(hist.dispatched) = LeadingOk

\* A frame with a bad tag and a well-formed frame after it were delivered.
C3_Witness ==
    /\ Len(hist.sent) = 2
    /\ hist.sent[1].class = "badtag"
    /\ hist.sent[2].class = "ok"
    /\ wire = <<>>
    /\ op = "dataReceived"
    /\ hist.dispatched = <<>>

\* C4: while the bytes delivered belong to well-formed frames, every
\* complete frame has been dispatched, in order, and the buffer holds
\* exactly the bytes after the last complete frame (none after a delivery
\* that ends with a frame).
C4_Consume ==
    Len(hist.delivered) <= SentLen(LeadingOk) =>
        /\ received = Drop(hist.delivered, SentLen(DoneOk))
        /\ [i \in 1..Len(hist.dispatched) |-> hist.dispatched[i].message.kind]
             = [i \in 1..DoneOk |-> hist.sent[i].kind]

\* One delivery held the version frame 00 00 00 00 00 05 + 5 bytes and the
\* start of another frame: one message dispatched, the rest buffered.
C4_Witness ==
    /\ op = "dataReceived"
    /\ Len(hist.delivered) > 11
    /\ Take(hist.delivered, 11) = <<0, 0, 0, 0, 0, 5, 8, 1, 18, 1, 49>>
    /\ Len(dispatched) = 1
    /\ dispatched[1].message.kind = "Version"
    /\ Len(hist.dispatched) = 1
    /\ received = Drop(hist.delivered, 11)
    /\ received # <<>>
    /\ LeadingOk = 2

\* The buffer b holds less than a header, or less than the frame its header
\* (with a valid tag) announces.
Partial(b) ==
    \/ Len(b) < 6
    \/ HdrTag(b) \in 0..24 /\ Len(b) < 6 + HdrLen(b)

\* C5: a delivery that leaves the buffer with a partial frame dispatches
\* nothing and consumes nothing: the buffer is the old one with the new
\* bytes appended.
C5_PartialFrame ==
    [][ (/\ hist'.delivered # hist.delivered
         /\ Partial(received \o Drop(hist'.delivered, Len(hist.delivered))))
        => /\ dispatched' = <<>>
           /\ received' = received \o Drop(hist'.delivered, Len(hist.delivered))
      ]_vars

\* A header and part of its payload are buffered, after a delivery that
\* dispatched nothing.
C5_Witness ==
    /\ op = "dataReceived"
    /\ dispatched = <<>>
    /\ transport = "open"
    /\ Len(received) > 6
    /\ Partial(received)
    /\ hist.split

\* C6: round trip. A frame made by the encoder starts with the tag of its
\* kind (the position in the table) and the length of its payload, and once
\* delivered it is dispatched exactly once, with that tag, kind and the same
\* fields; ID_MESSAGE and MESSAGE_ID are inverse to each other.
C6_RoundTrip ==
    /\ \A i \in 1..Len(hist.sent) :
          hist.sent[i].class = "ok" =>
             /\ Take(hist.sent[i].data, 2) = <<0, ExpectedTag[hist.sent[i].kind]>>
             /\ HdrLen(hist.sent[i].data) = Len(hist.sent[i].data) - 6
    /\ Len(hist.dispatched) = DoneOk
    /\ \A i \in 1..Len(hist.dispatched) :
          /\ i <= Len(hist.sent)
          /\ hist.dispatched[i].msg_type = ExpectedTag[hist.sent[i].kind]
          /\ hist.dispatched[i].message.kind = hist.sent[i].kind
          /\ SerializeToString(hist.dispatched[i].message.fields)
               = Drop(hist.sent[i].data, 6)
          /\ Len(hist.dispatched[i].message.fields) = Len(hist.sent[i].fields)
    /\ \A t \in 0..24 : MESSAGE_ID[ID_MESSAGE[t + 1]] = t
    /\ \A k \in DOMAIN MESSAGE_ID : ID_MESSAGE[MESSAGE_ID[k] + 1] = k
    /\ DOMAIN MESSAGE_ID = DOMAIN ExpectedTag

\* A user-state frame with three fields went through encoder and decoder.
C6_Witness ==
    /\ Len(hist.dispatched) = 2
    /\ hist.dispatched[1].message.kind = "ServerConfig"
    /\ hist.dispatched[1].msg_type = 24
    /\ hist.dispatched[2].message.kind = "UserState"
    /\ Len(hist.dispatched[2].message.fields) = 3

\* C7: handshake ordering. Nothing is written or received before
\* connectionMade; the first frame written is Version (tag 0), the second
\* Authenticate (tag 2), then the self-mute UserState (tag 9); pings and
\* inbound bytes come after them.
C7_Handshake ==
    /\ transport = "none" =>
          /\ hist.written = <<>>
          /\ written = <<>>
          /\ hist.delivered = <<>>
          /\ ~pingScheduled
    /\ transport # "none" =>
          /\ Len(hist.written) >= 3
          /\ hist.written[1] = 0
          /\ hist.written[2] = 2
          /\ hist.written[3] = 9
    /\ op = "connectionMade" =>
          /\ Len(written) = 3
          /\ HdrTag(written[1]) = 0
          /\ HdrTag(written[2]) = 2

\* A ping was written after the handshake and after inbound messages.
C7_Witness ==
    /\ op = "ping_handler"
    /\ Len(written) = 1
    /\ HdrTag(written[1]) = 3
    /\ hist.dispatched # <<>>
    /\ hist.written[1] = 0
    /\ hist.written[2] = 2

\* C8: deserialization failure. Once a frame with a valid tag and a payload
\* that does not deserialize has been delivered completely, the transport is
\* still up, the frame's bytes are gone from the buffer, and every complete
\* well-formed frame of the stream has been dispatched.
C8_DeserializationFailure ==
    FirstBad("malformed", Len(hist.sent[LeadingOk + 1].data)) =>
        /\ transport # "lost"
        /\ Len(received) <= Len(hist.delivered) - SentLen(LeadingOk + 1)
        /\ (\A i \in 1..Len(hist.sent) : hist.sent[i].class # "badtag") =>
              Len(hist.dispatched) =
                 Cardinality({k \in 1..Len(hist.sent) :
                                /\ hist.sent[k].class = "ok"
                                /\ SentLen(k) <= Len(hist.delivered)})

\* The message of the frame the step delivers refers to a channel or a
\* session that the graph before the step does not hold.
Absent(m) ==
    \/ /\ m.kind = "ChannelState"
       /\ \E l \in Range(Repeated(m, 4)) \cup Range(Repeated(m, 6))
                      \cup Range(Repeated(m, 7)) :
             l \notin DOMAIN channels
    \/ /\ m.kind = "UserState"
       /\ \/ HasField(m, 5) /\ GetField(m, 5, 0) \notin DOMAIN channels
          \/ HasField(m, 2) /\ GetField(m, 2, 0) \notin DOMAIN users
          \/ GetField(m, 3, <<>>) = <<>>
               /\ GetField(m, 1, 0) \notin DOMAIN users
    \/ /\ m.kind = "PermissionQuery"
       /\ GetField(m, 1, 0) \notin DOMAIN channels
    \/ /\ m.kind = "TextMessage"
       /\ \/ GetField(m, 1, 0) \notin DOMAIN users
          \/ \E c \in Range(Repeated(m, 3)) : c \notin DOMAIN channels

\* C9: state inconsistency. A channel-state, user-state, permission-query
\* or text message that refers to a channel or session absent from the
\* graph changes neither the channel table (links and members included)
\* nor the user index (current channels and flags included), and the
\* transport stays as it was.
C9_StateInconsistency ==
    [][ (/\ op' = "dataReceived"
         /\ Len(dispatched') = 1
         /\ Absent(dispatched'[1].message))
        => /\ channels' = channels
           /\ users' = users
           /\ transport' = transport
      ]_vars

\* C10: channel description, new id. A channel-state message for an id
\* that is not in the channel table puts a channel with that id in the
\* table, with the message's name, position and parent (none when the
\* field is absent) and, when the message lists initial links (here: to
\* channels that are in the table), exactly those links.
C10_NewChannel ==
    [][ (/\ op' = "dataReceived"
         /\ Len(dispatched') = 1
         /\ dispatched'[1].message.kind = "ChannelState"
         /\ GetField(dispatched'[1].message, 1, 0) \notin DOMAIN channels
         /\ Range(Repeated(dispatched'[1].message, 4)) \subseteq DOMAIN channels)
        => /\ GetField(dispatched'[1].message, 1, 0) \in DOMAIN channels'
           /\ LET m == dispatched'[1].message
                  c == channels'[GetField(m, 1, 0)]
              IN  /\ c.channel_id = GetField(m, 1, 0)
                  /\ c.name = GetField(m, 3, <<>>)
                  /\ c.position = GetField(m, 9, 0)
                  /\ c.parent = IF HasField(m, 2) THEN GetField(m, 2, 0)
                                ELSE None
                  /\ Repeated(m, 4) # <<>> => c.links = Range(Repeated(m, 4))
      ]_vars

\* The events published for the links in ls of channel cid.
LinkEvents(name, ls, cid) ==
    [i \in 1..Len(ls) |-> [name |-> name, a |-> ls[i], b |-> cid]]

\* C11: link deltas. A channel-state message for a known channel c whose
\* links_add A and links_remove R name known channels leaves c with the
\* links (old \cup A) \ R, leaves every other channel as it was, and
\* publishes one ChannelLinked event per added id and then one
\* ChannelUnlinked event per removed id.
C11_LinkDeltas ==
    [][ (/\ op' = "dataReceived"
         /\ Len(dispatched') = 1
         /\ dispatched'[1].message.kind = "ChannelState"
         /\ GetField(dispatched'[1].message, 1, 0) \in DOMAIN channels
         /\ Range(Repeated(dispatched'[1].message, 6)) \subseteq DOMAIN channels
         /\ Range(Repeated(dispatched'[1].message, 7)) \subseteq DOMAIN channels)
        => LET m == dispatched'[1].message
               cid == GetField(m, 1, 0)
               A == Repeated(m, 6)
               R == Repeated(m, 7)
           IN  /\ DOMAIN channels' = DOMAIN channels
               /\ channels'[cid].links
                    = (channels[cid].links \cup Range(A)) \ Range(R)
               /\ \A c \in DOMAIN channels \ {cid} : channels'[c] = channels[c]
               /\ events' = LinkEvents("Mumble/ChannelLinked", A, cid)
                            \o LinkEvents("Mumble/ChannelUnlinked", R, cid)
      ]_vars

\* Channel 2, already linked to 0, received links_add [0, 1] together with
\* links_remove [1]: its links are {0} and three events were published.
C11_Witness ==
    /\ op = "dataReceived"
    /\ Len(dispatched) = 1
    /\ dispatched[1].message.kind = "ChannelState"
    /\ Repeated(dispatched[1].message, 6) = <<0, 1>>
    /\ Repeated(dispatched[1].message, 7) = <<1>>
    /\ 2 \in DOMAIN channels
    /\ channels[2].links = {0}
    /\ Len(events) = 3
    /\ log = <<>>

\* The numbers of the fields present in message m.
Present(m) == {m.fields[i].num : i \in 1..Len(m.fields)}

\* C12: user first sight and move. A user-state message with a name for an
\* unseen session s and a known channel c puts s in the index with current
\* channel c and in c's member set; a later user-state message for s that
\* carries only channel_id = d, d known, takes s out of the member set of
\* its old channel, puts it in d's, makes d its current channel and
\* publishes exactly one UserMoved event.
C12_FirstSightAndMove ==
    [][ (/\ op' = "dataReceived"
         /\ Len(dispatched') = 1
         /\ dispatched'[1].message.kind = "UserState")
        => LET m == dispatched'[1].message
               s == GetField(m, 1, 0)
               d == GetField(m, 5, 0)
           IN  /\ (/\ GetField(m, 3, <<>>) # <<>>
                   /\ s \notin DOMAIN users
                   /\ d \in DOMAIN channels)
                  => /\ s \in DOMAIN users'
                     /\ users'[s].channel = d
                     /\ s \in channels'[d].users
               /\ (/\ Present(m) = {1, 5}
                   /\ s \in DOMAIN users
                   /\ d \in DOMAIN channels)
                  => /\ users'[s].channel = d
                     /\ s \in channels'[d].users
                     /\ users[s].channel # d
                          => s \notin channels'[users[s].channel].users
                     /\ Len(events') = 1
                     /\ events'[1].name = "Mumble/UserMoved"
      ]_vars

\* The user attribute that each flag field of a user-state message sets.
FlagAttr ==
    (6 :> "mute") @@ (7 :> "deaf") @@ (8 :> "suppress") @@ (9 :> "self_mute")
    @@ (10 :> "self_deaf") @@ (18 :> "priority_speaker")
    @@ (19 :> "recording")

\* The place of each state-change event in the order of the fields.
RankOf(name) ==
    CASE name = "Mumble/UserMoved" -> 1
      [] name = "Mumble/UserMuteToggle" -> 2
      [] name = "Mumble/UserDeafToggle" -> 3
      [] name = "Mumble/UserSuppressionToggle" -> 4
      [] name = "Mumble/UserSelfMuteToggle" -> 5
      [] name = "Mumble/UserSelfDeafToggle" -> 6
      [] name = "Mumble/UserPrioritySpeakerToggle" -> 7
      [] name = "Mumble/UserRecordingToggle" -> 8
      [] OTHER -> 0

\* The step delivers a user-state message about a known session; the
\* channel and the actor it names, if any, are known too.
KnownUserDelta ==
    /\ op' = "dataReceived"
    /\ Len(dispatched') = 1
    /\ dispatched'[1].message.kind = "UserState"
    /\ GetField(dispatched'[1].message, 1, 0) \in DOMAIN users
    /\ HasField(dispatched'[1].message, 5)
          => GetField(dispatched'[1].message, 5, 0) \in DOMAIN channels
    /\ HasField(dispatched'[1].message, 2)
          => GetField(dispatched'[1].message, 2, 0) \in DOMAIN users

\* C13: a user-state message about a known session applies every field
\* present among channel_id, mute, deaf, suppress, self_mute, self_deaf,
\* priority_speaker and recording, in that order, and leaves the attribute
\* of every absent field unchanged.
C13_AllFieldsInOrder ==
    [][ KnownUserDelta
        => LET m == dispatched'[1].message
               s == GetField(m, 1, 0)
           IN  /\ s \in DOMAIN users'
               /\ users'[s].channel = IF HasField(m, 5) THEN GetField(m, 5, 0)
                                      ELSE users[s].channel
               /\ \A n \in DOMAIN FlagAttr :
                     users'[s][FlagAttr[n]] =
                        IF HasField(m, n) THEN GetBool(m, n)
                        ELSE users[s][FlagAttr[n]]
               /\ \A i, j \in 1..Len(events') :
                     i < j => RankOf(events'[i].name) < RankOf(events'[j].name)
      ]_vars

\* The event that announces the change made by each field of a user-state
\* message.
FieldEvent ==
    (5 :> "Mumble/UserMoved") @@ (6 :> "Mumble/UserMuteToggle")
    @@ (7 :> "Mumble/UserDeafToggle")
    @@ (8 :> "Mumble/UserSuppressionToggle")
    @@ (9 :> "Mumble/UserSelfMuteToggle")
    @@ (10 :> "Mumble/UserSelfDeafToggle")
    @@ (18 :> "Mumble/UserPrioritySpeakerToggle")
    @@ (19 :> "Mumble/UserRecordingToggle")

\* C14: a user-state message about a known session (that names a known
\* actor) publishes exactly one event for each field present, of the kind
\* of that field, and no event for an absent field.
C14_OneEventPerField ==
    [][ (KnownUserDelta /\ HasField(dispatched'[1].message, 2))
        => /\ \A n \in DOMAIN FieldEvent :
                 Cardinality({i \in 1..Len(events') :
                                 events'[i].name = FieldEvent[n]})
                   = IF HasField(dispatched'[1].message, n) THEN 1 ELSE 0
           /\ Len(events')
                = Cardinality(Present(dispatched'[1].message)
                                 \cap DOMAIN FieldEvent)
      ]_vars

\* The step delivers a user-state message that announces an unseen session
\* under the configured username, in a known channel.
SelfAnnounced ==
    /\ op' = "dataReceived"
    /\ Len(dispatched') = 1
    /\ dispatched'[1].message.kind = "UserState"
    /\ GetField(dispatched'[1].message, 3, <<>>) = config.username
    /\ GetField(dispatched'[1].message, 1, 0) \notin DOMAIN users
    /\ GetField(dispatched'[1].message, 5, 0) \in DOMAIN channels

\* C15: self-identification. The first announcement under the configured
\* username sets the marker and writes at most one join frame; a later one
\* neither changes the marker nor writes a join frame.
C15_SelfIdentification ==
    [][ SelfAnnounced
        => IF ourselves = None
           THEN /\ ourselves' = GetField(dispatched'[1].message, 1, 0)
                /\ Len(written') <= 1
           ELSE /\ ourselves' = ourselves
                /\ written' = <<>>
      ]_vars

\* The channel the configuration selects for the initial join: the one
\* with the configured id if an id is configured, else the one with the
\* configured name; None when there is none.
JoinTarget ==
    IF ~config.has_channel THEN None
    ELSE IF config.channel.id # None
    THEN (IF config.channel.id \in DOMAIN channels THEN config.channel.id
          ELSE None)
    ELSE IF \E c \in DOMAIN channels : channels[c].name = config.channel.name
    THEN CHOOSE c \in DOMAIN channels : channels[c].name = config.channel.name
    ELSE None

\* C16: initial join selection. On self-identification the user is created
\* and marked as ourselves, the transport stays as it is, and the frames
\* written are one UserState with the channel_id of the selected channel,
\* or none when the configuration selects no known channel.
C16_InitialJoin ==
    [][ (SelfAnnounced /\ ourselves = None)
        => /\ GetField(dispatched'[1].message, 1, 0) \in DOMAIN users'
           /\ ourselves' = GetField(dispatched'[1].message, 1, 0)
           /\ transport' = transport
           /\ written' =
                IF JoinTarget = None THEN <<>>
                ELSE << <<0, 9, 0, 0, 0, 2, 40, JoinTarget>> >>
      ]_vars

\* The number of events called name among the events evs.
Count(evs, name) == Cardinality({i \in 1..Len(evs) : evs[i].name = name})

\* C17: user removal. A UserRemove for a known session takes the user out
\* of its channel's member set and out of the index, and one for an unknown
\* session changes neither; a Mumble/UserRemove event is published exactly
\* when the actor named is a known user as the message arrives (the removed
\* session itself included); exactly one UserDisconnected event is
\* published, with no user when the session was unknown.
C17_UserRemoval ==
    [][ (/\ op' = "dataReceived"
         /\ Len(dispatched') = 1
         /\ dispatched'[1].message.kind = "UserRemove")
        => LET m == dispatched'[1].message
               s == GetField(m, 1, 0)
               actor == GetField(m, 2, 0)
           IN  /\ IF s \in DOMAIN users
                  THEN /\ DOMAIN users' = DOMAIN users \ {s}
                       /\ s \notin channels'[users[s].channel].users
                  ELSE users' = users /\ channels' = channels
               /\ Count(events', "Mumble/UserRemove")
                    = IF actor \in DOMAIN users THEN 1 ELSE 0
               /\ Count(events', "UserDisconnected") = 1
               /\ s \notin DOMAIN users
                    => \A i \in 1..Len(events') :
                          events'[i].name = "UserDisconnected"
                             => events'[i].a = None
      ]_vars

\* C18: channel removal. After a ChannelRemove message for a known channel
\* id the channel is no longer in the channel table.
C18_ChannelRemoval ==
    [][ (/\ op' = "dataReceived"
         /\ Len(dispatched') = 1
         /\ dispatched'[1].message.kind = "ChannelRemove"
         /\ GetField(dispatched'[1].message, 1, 0) \in DOMAIN channels)
        => GetField(dispatched'[1].message, 1, 0) \notin DOMAIN channels'
      ]_vars

\* The kinds that recvProtobuf has no branch of their own for.
UnhandledKinds ==
    {"UDPTunnel", "Authenticate", "ChannelRemove", "BanList",
     "PermissionDenied", "ACL", "QueryUsers", "ContextActionModify",
     "ContextAction", "UserList", "VoiceTarget", "UserStats", "RequestBlob"}

\* C19: dispatch is total. A message of any of the 25 kinds is handled by
\* one branch: a kind without handling of its own publishes exactly one
\* Mumble/Unknown event and nothing else, and changes neither channels,
\* users, the self marker, the keepalive flag, the transport nor the
\* buffer, and writes nothing; a kind with handling of its own publishes
\* no Mumble/Unknown event.
C19_DispatchTotal ==
    [][ (op' = "dataReceived" /\ Len(dispatched') = 1)
        => LET m == dispatched'[1].message
           IN  /\ m.kind \in Range(ID_MESSAGE)
               /\ Count(events', "Mumble/Unknown")
                    = IF m.kind \in UnhandledKinds THEN 1 ELSE 0
               /\ m.kind \in UnhandledKinds
                    => /\ Len(events') = 1
                       /\ events'[1].a = ExpectedTag[m.kind]
                       /\ log' = <<>>
                       /\ written' = <<>>
                       /\ received' = <<>>
                       /\ channels' = channels
                       /\ users' = users
                       /\ ourselves' = ourselves
                       /\ pinging' = pinging
                       /\ pingScheduled' = pingScheduled
                       /\ transport' = transport
      ]_vars

\* A RequestBlob message (tag 23) was published as Mumble/Unknown while
\* channels and users were known.
C19_Witness ==
    /\ op = "dataReceived"
    /\ Len(dispatched) = 1
    /\ dispatched[1].message.kind = "RequestBlob"
    /\ Len(events) = 1
    /\ events[1].name = "Mumble/Unknown"
    /\ DOMAIN channels = {0, 1}
    /\ DOMAIN users = {1, 2}
    /\ ourselves = 1

\* The configured prefix with {NICK} replaced by the username, lowered.
Prefix == Lower(Replace(config.control_chars, NICK, config.username))

\* The step delivers a text message of a known user to a known channel
\* whose text starts with the prefix, compared without regard to case.
CommandText ==
    /\ op' = "dataReceived"
    /\ Len(dispatched') = 1
    /\ dispatched'[1].message.kind = "TextMessage"
    /\ GetField(dispatched'[1].message, 1, 0) \in DOMAIN users
    /\ Range(Repeated(dispatched'[1].message, 3)) \subseteq DOMAIN channels
    /\ Len(GetField(dispatched'[1].message, 5, <<>>)) >= Len(Prefix)
    /\ Lower(Take(GetField(dispatched'[1].message, 5, <<>>), Len(Prefix)))
         = Prefix

\* C20: command parsing. Every text that starts with the prefix, the
\* prefix alone and the prefix followed by blanks included, publishes one
\* PreCommand event and runs one command, with the remainder split at its
\* first run of whitespace into the command and the (possibly empty)
\* arguments; "!help" gives the command "help" and no arguments.
C20_CommandParsing ==
    [][ CommandText
        => LET text == GetField(dispatched'[1].message, 5, <<>>)
               split == Split1(Drop(text, Len(Prefix)))
           IN  /\ Count(events', "PreCommand") = 1
               /\ Count(events', "run_command") = 1
               /\ events'[1].name = "PreCommand"
               /\ events'[1].a = IF split = <<>> THEN <<>> ELSE split[1]
               /\ events'[1].b = IF Len(split) > 1 THEN split[2] ELSE <<>>
               /\ text = <<33, 104, 101, 108, 112>>
                    => /\ events'[1].a = <<104, 101, 108, 112>>
                       /\ events'[1].b = <<>>
      ]_vars

\* The text of the message the step dispatched, converted as the handler
\* converts it.
TextOf == html_to_text(GetField(dispatched'[1].message, 5, <<>>))

\* The step delivers a command with a command token.
CommandRun == CommandText /\ Split1(Drop(TextOf, Len(Prefix))) # <<>>

\* C21: not-found fallback. When the command manager answers not-found to
\* a prefixed message, the message is handled as chat: after PreCommand and
\* the command run, PreMessageReceived and then MessageReceived are
\* published once each with the text; when it answers success,
\* unauthorized or an error, no chat event is published; in all four cases
\* the connection stays as it was.
C21_NotFoundFallback ==
    [][ CommandRun
        => /\ events'[2].name = "run_command"
           /\ transport' = transport
           /\ events'[2].result = "not_found"
                => /\ Len(events') = 4
                   /\ events'[3].name = "PreMessageReceived"
                   /\ events'[4].name = "MessageReceived"
                   /\ events'[3].b = TextOf
                   /\ events'[4].b = TextOf
           /\ events'[2].result \in {"ok", "unauthorized", "error"}
                => /\ Len(events') = 2
                   /\ Count(events', "PreMessageReceived") = 0
                   /\ Count(events', "MessageReceived") = 0
      ]_vars

\* "!help" was not found and went through as chat on an open connection.
C21_Witness ==
    /\ op = "dataReceived"
    /\ transport = "open"
    /\ Len(dispatched) = 1
    /\ dispatched[1].message.kind = "TextMessage"
    /\ Len(events) = 4
    /\ events[1].name = "PreCommand"
    /\ events[2].name = "run_command"
    /\ events[2].result = "not_found"
    /\ events[3].name = "PreMessageReceived"
    /\ events[4].name = "MessageReceived"
    /\ events[4].b = <<33, 104, 101, 108, 112>>

\* The step delivers a text message of a known user to a known channel
\* whose text does not start with the prefix, compared without regard to
\* case.
PlainText ==
    /\ op' = "dataReceived"
    /\ Len(dispatched') = 1
    /\ dispatched'[1].message.kind = "TextMessage"
    /\ GetField(dispatched'[1].message, 1, 0) \in DOMAIN users
    /\ Range(Repeated(dispatched'[1].message, 3)) \subseteq DOMAIN channels
    /\ ~StartsWith(Lower(TextOf), Prefix)

\* C22: a text that does not start with the prefix is not a command: no
\* PreCommand event is published, no command is run, nothing is logged or
\* written and the protocol's state is unchanged; the only events of the
\* delivery are the two chat events of the caller.
C22_NoPrefix ==
    [][ PlainText
        => /\ Count(events', "PreCommand") = 0
           /\ Count(events', "run_command") = 0
           /\ Len(events') = 2
           /\ events'[1].name = "PreMessageReceived"
           /\ events'[2].name = "MessageReceived"
           /\ log' = <<>>
           /\ written' = <<>>
           /\ UNCHANGED <<config, received, channels, users, ourselves,
                          pinging, transport, pingScheduled>>
      ]_vars

\* "hi" arrived under the prefix "!" and was handled as chat.
C22_Witness ==
    /\ op = "dataReceived"
    /\ config.control_chars = <<33>>
    /\ Len(dispatched) = 1
    /\ dispatched[1].message.kind = "TextMessage"
    /\ GetField(dispatched[1].message, 5, <<>>) = <<104, 105>>
    /\ Len(events) = 2
    /\ events[1].name = "PreMessageReceived"
    /\ events[2].name = "MessageReceived"

\* C23: cancellation is honoured. When a subscriber cancels the PreCommand
\* event of a message, no command is run for that message.
C23_Cancellation ==
    [][ CommandRun /\ events'[1].name = "PreCommand" /\ events'[1].cancelled
        => Count(events', "run_command") = 0
      ]_vars

\* The frame of a text message with the escaped text, for a channel or a
\* user.
TextFrame(text, target, target_id) ==
    EncodeFrame(TextMessageTo(Escape(text), target, target_id))

\* The step is a call of msg_channel or msg_user with use_event true for a
\* known target.
EventSend == op' \in {"msg_channel", "msg_user"} /\ events' # <<>>

\* C24: pre-send notification. msg_channel and msg_user with use_event
\* true publish one MessageSent event; the frame written holds the
\* escaped text the subscribers left on the event, and when a subscriber
\* cancelled the event no frame is written.
C24_PreSend ==
    [][ /\ op' \in {"msg_channel", "msg_user"}
           => Len(events') <= 1 /\ (events' = <<>> => written' = <<>>)
        /\ EventSend
           => /\ events'[1].name = "MessageSent"
              /\ events'[1].cancelled => written' = <<>>
              /\ ~events'[1].cancelled
                   => written' =
                        << TextFrame(events'[1].b,
                                     IF op' = "msg_channel" THEN "channel"
                                     ELSE "user",
                                     events'[1].a) >>
      ]_vars

\* The channel whose member set holds our own session, if there is one.
OurChannels == {c \in DOMAIN channels' : ourselves' \in channels'[c].users}

\* C28: default target. Whenever msg(text) is called with the target
\* "channel" and no target id, one TextMessage frame is written, addressed
\* to the one channel that holds our own user.
C28_DefaultTarget ==
    [][ op' = "msg"
        => \E c \in OurChannels : \E text \in SendTexts :
              /\ OurChannels = {c}
              /\ written' = <<TextFrame(text, "channel", c)>>
      ]_vars

\* A Reject message has been dispatched.
RejectSeen ==
    \E i \in DOMAIN hist.dispatched :
       hist.dispatched[i].message.kind = "Reject"

PingFrame == EncodeFrame(Message("Ping", <<>>))

\* C25: keepalive. connectionMade schedules a tick; a tick that finds the
\* pinging flag true writes one Ping frame and schedules the next tick;
\* once a Reject message has been dispatched the flag is false and stays
\* false, the transport is no longer open, no operation writes a Ping
\* frame, and the tick that fires next writes nothing and schedules no
\* other.
C25_Keepalive ==
    [][ /\ op' = "connectionMade" => pingScheduled'
        /\ (op' = "ping_handler" /\ pinging)
             => written' = <<PingFrame>> /\ pingScheduled'
        /\ RejectSeen' => ~pinging' /\ transport' \in {"closed", "lost"}
        /\ ~pinging => ~pinging'
        /\ RejectSeen => \A i \in DOMAIN written' : written'[i] # PingFrame
        /\ (RejectSeen /\ op' = "ping_handler")
             => written' = <<>> /\ ~pingScheduled'
      ]_vars

\* After a Reject the pending tick fired: nothing written, nothing
\* scheduled.
C25_Witness ==
    /\ RejectSeen
    /\ op = "ping_handler"
    /\ ~pinging
    /\ ~pingScheduled
    /\ written = <<>>
    /\ transport = "closed"

C29_DiscardOnClose ==
    [][ /\ (transport = "open" /\ transport' = "closed") => received' = <<>>
        /\ (transport = "closed" /\ received # <<>> /\ op' = "dataReceived")
             => dispatched' = <<>>
      ]_vars

\* What the second instance reads as self.channels, self.users,
\* self.received, self.ourselves and self.pinging.
PeerView ==
    [channels |-> PeerSelf.channels, users |-> PeerSelf.users,
     received |-> PeerSelf.received, ourselves |-> PeerSelf.ourselves,
     pinging |-> PeerSelf.pinging]

\* C27: instance independence. A message dispatched on the first
\* instance leaves the second instance's channel table, user index,
\* buffer, self-identity marker and pinging flag as they were.
C27_Independence ==
    [][op' = "dataReceived" => PeerView' = PeerView]_vars

\* C30: event bus ordering. After any sequence of add_callback,
\* remove_callback and remove_callbacks_for_plugin, run_callback calls the
\* handlers of a callback from the highest priority to the lowest, and
\* handlers of equal priority in alphabetical order of the plugin names.
C30_Ordering ==
    [][ op' = "run_callback"
        => \A i \in DOMAIN invoked' : \A j \in DOMAIN invoked' :
              i < j
              => \/ invoked'[i].priority > invoked'[j].priority
                 \/ /\ invoked'[i].priority = invoked'[j].priority
                    /\ NameLess(invoked'[i].name, invoked'[j].name)
      ]_vars

\* No plugin has two handlers in the list of a callback.
OneHandlerEach(cbs) ==
    \A c \in DOMAIN cbs : \A i \in DOMAIN cbs[c] : \A j \in DOMAIN cbs[c] :
       cbs[c][i].name = cbs[c][j].name => i = j

\* C31: one handler per plugin and callback. In every state of the
\* registry no plugin has two handlers for one callback; an add_callback
\* that raises ValueError leaves the registry as it was, and one that does
\* not raise adds exactly one handler, so an add_callback for a pair that
\* is registered already raises.
C31_OneHandler ==
    [][ /\ OneHandlerEach(callbacks')
        /\ op' = "add_callback"
           => \/ log' = <<"ValueError">> /\ callbacks' = callbacks
              \/ /\ log' = <<>>
                 /\ Registered(callbacks') = Registered(callbacks) + 1
                 /\ callbacks' # callbacks
      ]_vars

\* A second add_callback of the plugin "a" for the callback "X" raised and
\* left the one handler in place.
C31_Witness ==
    /\ op = "add_callback"
    /\ log = <<"ValueError">>
    /\ has_plugin_callback(callbacks, "X", <<97>>)
    /\ Len(callbacks["X"]) = 1

\* The plugin the last load_plugin call named is collected and the call
\* gets past the check of lines 260-266.
Loading ==
    /\ args'.name \in DOMAIN all_plugins
    /\ args'.name \notin loaded_plugins \/ op' = "load_plugin(unload=True)"

\* The dependencies all_plugins declares for a plugin.
Dependencies(name) ==
    {all_plugins[name][i] : i \in DOMAIN all_plugins[name]}

\* C32: the results of load_plugin(name, unload). PLUGIN_NOT_EXISTS for a
\* name that is not collected; PLUGIN_ALREADY_LOADED, loaded_plugins as it
\* was, for a loaded plugin without unload; PLUGIN_DEPENDENCY_MISSING and
\* no plugin added when a dependency of the plugin is not collected;
\* PLUGIN_LOAD_ERROR leaves the plugin out of loaded_plugins, and is the
\* result when the plugin's dependencies are loaded and its activation or
\* setup raises; PLUGIN_LOADED is the result exactly when the call has
\* added the plugin, and then its dependencies are all loaded.
C32_LoadResults ==
    [][ op' \in {"load_plugin", "load_plugin(unload=True)"}
        => /\ args'.name \notin DOMAIN all_plugins
              => result' = PLUGIN_NOT_EXISTS
                 /\ loaded_plugins' = loaded_plugins
           /\ (args'.name \in loaded_plugins /\ op' = "load_plugin")
              => result' = PLUGIN_ALREADY_LOADED
                 /\ loaded_plugins' = loaded_plugins
           /\ (Loading /\ ~(Dependencies(args'.name) \subseteq
                              DOMAIN all_plugins))
              => result' = PLUGIN_DEPENDENCY_MISSING
                 /\ loaded_plugins' \subseteq loaded_plugins
           /\ result' = PLUGIN_LOAD_ERROR
              => args'.name \notin loaded_plugins'
           /\ (Loading /\ args'.name \in args'.failing
                 /\ Dependencies(args'.name) \subseteq
                      loaded_plugins \ {args'.name})
              => result' = PLUGIN_LOAD_ERROR
           /\ result' = PLUGIN_LOADED
              <=> Loading /\ args'.name \in loaded_plugins'
           /\ result' = PLUGIN_LOADED
              => Dependencies(args'.name) \subseteq loaded_plugins'
      ]_vars

\* load_plugin("b") loaded "a" and "ab", the dependencies of "b", then "b".
C32_Witness ==
    /\ op = "load_plugin"
    /\ args.name = <<98>>
    /\ result = PLUGIN_LOADED
    /\ all_plugins[<<98>>] = << <<97, 98>>, <<97>> >>
    /\ loaded_plugins = {<<97>>, <<97, 98>>, <<98>>}

\* The users a target stands for: the session an int gives, the nickname
\* a str gives (whatever the case of the letters), the User object.
UsersNamed(t) ==
    IF t.kind \in {"int", "User"} THEN {s \in DOMAIN users : s = t.value}
    ELSE IF t.kind = "str"
    THEN {s \in DOMAIN users : Lower(users[s].nickname) = Lower(t.value)}
    ELSE {}

\* The channels a target stands for.
ChannelsNamed(t) ==
    IF t.kind \in {"int", "Channel"} THEN {c \in DOMAIN channels : c = t.value}
    ELSE IF t.kind = "str"
    THEN {c \in DOMAIN channels : Lower(channels[c].name) = Lower(t.value)}
    ELSE {}

\* The users send_msg and send_action look for: those of a User object,
\* and those of an int or a str when target_type is "user".
WantedUsers ==
    IF args'.target.kind = "User" \/ args'.target_type = "user"
    THEN UsersNamed(args'.target) ELSE {}

WantedChannels ==
    IF args'.target.kind = "Channel" \/ args'.target_type # "user"
    THEN ChannelsNamed(args'.target) ELSE {}

\* The text send_msg and send_action hand on.
SentText ==
    IF op' = "send_action" THEN <<42>> \o args'.message \o <<42>>
    ELSE args'.message

\* C33: target resolution. send_msg and send_action with an int or a str
\* that names no user (target_type "user") or no channel (otherwise)
\* return False, publish no event and write no frame, and so does a
\* unicode string, which is not looked up; with a target that is or names
\* a user or a channel of the index they return True and write one
\* TextMessage frame with the session of that user or the id of that
\* channel, send_action with the text between two '*'.
C33_Targets ==
    [][ op' \in {"send_msg", "send_action"}
        => /\ (/\ args'.target.kind \in {"int", "str", "unicode"}
               /\ WantedUsers = {}
               /\ WantedChannels = {})
              => result' = "False" /\ events' = <<>> /\ written' = <<>>
           /\ WantedUsers # {}
              => /\ result' = "True"
                 /\ \E s \in WantedUsers :
                       written' = <<TextFrame(SentText, "user", s)>>
           /\ WantedChannels # {}
              => /\ result' = "True"
                 /\ \E c \in WantedChannels :
                       written' = <<TextFrame(SentText, "channel", c)>>
      ]_vars

\* send_action("B", "hi") found the channel "b" (id 1) and wrote "*hi*".
C33_Witness ==
    /\ op = "send_action"
    /\ args.target = [kind |-> "str", value |-> <<66>>]
    /\ args.target_type = "None"
    /\ result = "True"
    /\ written = <<TextFrame(<<42, 104, 105, 42>>, "channel", 1)>>

\* The handlers registered for the callback of the run, in their order.
Handlers ==
    IF args'.callback \in DOMAIN callbacks THEN callbacks[args'.callback]
    ELSE <<>>

\* The run has called the i-th of them.
WasCalled(i) == \E k \in DOMAIN invoked' : invoked'[k].name = Handlers[i].name

\* The event's flag when the loop comes to the i-th handler: set before
\* the run, or by a handler called earlier in it.
FlagAt(i) ==
    \/ args'.cancelled
    \/ \E j \in 1..(i - 1) :
          WasCalled(j) /\ args'.does[Handlers[j].name] = "cancel"

\* C34: the cancelled flag in run_callback. A run calls a handler exactly
\* when its filter does not return false and the event's flag, as it is
\* when the loop comes to the handler, is clear or the handler was
\* registered with cancelled=True; this holds for the handlers behind one
\* that raised, too. The handlers are called once each, in the order of
\* the list, and run_callback returns the event.
C34_Cancelled ==
    [][ op' = "run_callback"
        => /\ \A i \in DOMAIN Handlers :
                 WasCalled(i)
                 <=> /\ Handlers[i].name \notin args'.rejecting
                     /\ ~FlagAt(i) \/ Handlers[i].cancelled
           /\ invoked' = SelectSeq(Handlers, LAMBDA cb :
                            \E k \in DOMAIN invoked' : invoked'[k] = cb)
           /\ result' = Event(FlagAt(Len(Handlers) + 1))
      ]_vars

\* The handlers of "b", "ab" and "a" are registered in this order, the
\* second one only for cancelled events; "b" cancelled the event and
\* raised nothing, "ab" raised, and "a" was not called.
C34_Witness ==
    /\ op = "run_callback"
    /\ args.callback = "X"
    /\ ~args.cancelled
    /\ args.rejecting = {}
    /\ args.does[<<98>>] = "cancel"
    /\ args.does[<<97, 98>>] = "raise"
    /\ has_callback(callbacks, "X")
    /\ Len(callbacks["X"]) = 3
    /\ callbacks["X"][2].cancelled
    /\ ~callbacks["X"][3].cancelled
    /\ Len(invoked) = 2
    /\ invoked[2].name = <<97, 98>>
    /\ log = <<"Error running callback">>
    /\ result = "event (cancelled)"

\* The number of calls of the handler cb in the run.
Calls(cb) == Cardinality({k \in DOMAIN invoked : invoked[k] = cb})

\* C35: threaded runs. When the loop of a threaded run_callback is through
\* and the threads it started have run, every handler of the list that
\* takes the event has been called exactly once, and no other handler has
\* been called.
C35_ExactlyOnce ==
    (/\ op \in {"run_callback(threaded=True): for cb",
                "run_callback(threaded=True): go"}
     /\ ~Running)
    => \A i \in DOMAIN threads.cbs :
          Calls(threads.cbs[i])
            = IF Eligible(threads.cbs, i, args.cancelled) THEN 1 ELSE 0

\* The plugins a plugin needs: its dependencies, their dependencies and
\* so on, down to k levels.
RECURSIVE Needs(_, _)
Needs(name, k) ==
    IF k = 0 \/ name \notin DOMAIN all_plugins THEN {}
    ELSE Dependencies(name)
           \cup UNION {Needs(d, k - 1) : d \in Dependencies(name)}

Needed(name) == Needs(name, Cardinality(Plugins) + 1)

\* The plugin is on a dependency loop.
OnLoop(name) == name \in Needed(name)

\* A configured plugin that can be loaded: it is collected, and neither
\* the plugin nor anything it needs is on a loop, is not collected or
\* fails in its setup.
Loadable(name) ==
    /\ name \in main_config.plugins
    /\ \A n \in {name} \cup Needed(name) :
          /\ n \in DOMAIN all_plugins
          /\ ~OnLoop(n)
          /\ n \notin args'.failing

\* C36: dependency loops. When a configured plugin is on a dependency
\* loop, load_plugins returns, it has logged that a loop was detected,
\* no plugin on a loop is in loaded_plugins, and the configured plugins
\* that can be loaded are loaded.
C36_DependencyLoop ==
    [][ (/\ op' = "load_plugins"
         /\ \E name \in main_config.plugins \cap DOMAIN all_plugins :
               OnLoop(name))
        => /\ result' = NoResult
           /\ \E i \in DOMAIN log' : log'[i].line = LoopDetected
           /\ \A name \in DOMAIN all_plugins :
                 OnLoop(name) => name \notin loaded_plugins'
           /\ \A name \in DOMAIN all_plugins :
                 Loadable(name) => name \in loaded_plugins'
      ]_vars

C37_ShutdownCloses ==
    [][op' = "shutdown" => transport' = "closed"]_vars

\* C38: the self-identity marker. It is unset, or it is the session of a
\* user of the user index who is in the member set of the channel the
\* index gives for that user.
C38_Identity ==
    \/ ourselves = None
    \/ /\ ourselves \in DOMAIN users
       /\ users[ourselves].channel \in DOMAIN channels
       /\ ourselves \in channels[users[ourselves].channel].users

\* C39: nothing is written after the close. Once the transport has been
\* closed, no operation writes a frame to it, and a keepalive tick that
\* fires writes no Ping and schedules no further tick.
C39_NoWriteAfterClose ==
    [][ transport = "closed"
        => /\ written' = <<>>
           /\ op' = "ping_handler" => ~pingScheduled'
      ]_vars

====
